---- MODULE Spec2Model ----
(***************************************************************************)
(* A model of the maze game: the maze graph of maze.py, the GameEngine of  *)
(* main.py, the test puzzle registry of tests/conftest.py and the game and *)
(* score rows of the repository of db.py.                                  *)
(*                                                                         *)
(* Python strings that the code normalises (verbs, direction tokens,       *)
(* answers) are sequences of one-character strings, so that strip, lower,  *)
(* upper and join are computed and not assumed.  None is the string        *)
(* "None" where the code holds a string or None, and the record Null       *)
(* where it holds an object or None.                                       *)
(***************************************************************************)
EXTENDS Integers, Sequences, FiniteSets, TLC

\* Bounds of the model (not program constants).
MaxMoves == 6
MaxReloads == 2
MaxGates == 3

None == "None"
Null == [null |-> TRUE]

(***************************************************************************)
(* Python string primitives                                                *)
(***************************************************************************)
Uppers == <<"A","B","C","D","E","F","G","H","I","J","K","L","M",
            "N","O","P","Q","R","S","T","U","V","W","X","Y","Z">>
Lowers == <<"a","b","c","d","e","f","g","h","i","j","k","l","m",
            "n","o","p","q","r","s","t","u","v","w","x","y","z">>

\* str.lower and str.upper, letter by letter.
LowerMap == [c \in {Uppers[i] : i \in DOMAIN Uppers} |->
                Lowers[CHOOSE i \in DOMAIN Uppers : Uppers[i] = c]]
UpperMap == [c \in {Lowers[i] : i \in DOMAIN Lowers} |->
                Uppers[CHOOSE i \in DOMAIN Lowers : Lowers[i] = c]]

LowerChar(c) == IF c \in DOMAIN LowerMap THEN LowerMap[c] ELSE c

UpperChar(c) == IF c \in DOMAIN UpperMap THEN UpperMap[c] ELSE c

lower(s) == [i \in DOMAIN s |-> LowerChar(s[i])]
upper(s) == [i \in DOMAIN s |-> UpperChar(s[i])]

IsSpace(c) == c = " "

RECURSIVE lstrip(_)
lstrip(s) ==
    IF s # <<>> /\ IsSpace(Head(s)) THEN lstrip(Tail(s)) ELSE s

RECURSIVE rstrip(_)
rstrip(s) ==
    IF s # <<>> /\ IsSpace(s[Len(s)]) THEN rstrip(SubSeq(s, 1, Len(s) - 1)) ELSE s

strip(s) == rstrip(lstrip(s))

\* " ".join(args)
RECURSIVE join(_)
join(args) ==
    IF args = <<>> THEN <<>>
    ELSE IF Len(args) = 1 THEN args[1]
    ELSE args[1] \o <<" ">> \o join(Tail(args))

(***************************************************************************)
(* maze.py: Direction, Position, Maze                                      *)
(***************************************************************************)
Direction == <<"N", "S", "E", "W">>
Directions == {Direction[i] : i \in DOMAIN Direction}

delta(d) ==
    CASE d = "N" -> <<-1, 0>>
      [] d = "S" -> <<1, 0>>
      [] d = "E" -> <<0, 1>>
      [] d = "W" -> <<0, -1>>

opposite(d) ==
    CASE d = "N" -> "S"
      [] d = "S" -> "N"
      [] d = "E" -> "W"
      [] d = "W" -> "E"

Position(r, c) == [row |-> r, col |-> c]

shift(pos, d) == Position(pos.row + delta(d)[1], pos.col + delta(d)[2])

in_bounds(m, pos) ==
    /\ 0 <= pos.row /\ pos.row < m.height
    /\ 0 <= pos.col /\ pos.col < m.width

cell(m, pos) == m.cells[pos]

next_pos_gated(m, pos, d) ==
    IF ~in_bounds(m, pos) THEN Null
    ELSE IF d \in cell(m, pos).blocked \/ cell(m, pos).edge_gates[d] # None THEN Null
    ELSE LET nxt == shift(pos, d) IN
         IF ~in_bounds(m, nxt) THEN Null
         ELSE IF opposite(d) \in cell(m, nxt).blocked THEN Null
         ELSE nxt

next_pos(m, pos, d) ==
    IF ~in_bounds(m, pos) THEN Null
    ELSE IF d \in cell(m, pos).blocked THEN Null
    ELSE LET nxt == shift(pos, d) IN
         IF ~in_bounds(m, nxt) THEN Null
         ELSE IF opposite(d) \in cell(m, nxt).blocked THEN Null
         ELSE nxt

available_moves_unblocked(m, pos) ==
    IF ~in_bounds(m, pos) THEN {}
    ELSE {d \in Directions : d \notin cell(m, pos).blocked}

available_moves(m, pos) ==
    IF ~in_bounds(m, pos) THEN {}
    ELSE {d \in Directions :
            /\ d \notin cell(m, pos).blocked
            /\ next_pos(m, pos, d) # Null
            /\ opposite(d) \notin cell(m, next_pos(m, pos, d)).blocked}

puzzle_id_at(m, pos) ==
    IF ~in_bounds(m, pos) THEN None ELSE cell(m, pos).puzzle_id

gate_id_for(m, pos, d) ==
    IF ~in_bounds(m, pos) THEN None ELSE cell(m, pos).edge_gates[d]

(***************************************************************************)
(* maze.py: the grid builder and the fixed 3x3 maze                        *)
(***************************************************************************)
make_grid(width, height) ==
    [pos \in {Position(r, c) : r \in 0..(height - 1), c \in 0..(width - 1)} |->
        [kind |-> "normal",
         blocked |-> {},
         puzzle_id |-> None,
         edge_gates |-> [d \in Directions |-> None]]]

add_wall_one_sided(grid, pos, d) == [grid EXCEPT ![pos].blocked = @ \cup {d}]

add_wall(grid, pos, d) ==
    LET g1 == [grid EXCEPT ![pos].blocked = @ \cup {d}]
        other == shift(pos, d)
    IN IF other \in DOMAIN g1
       THEN [g1 EXCEPT ![other].blocked = @ \cup {opposite(d)}]
       ELSE g1

GatePythonBasics == "gate-python-basics-1"

build_minimal_3x3_maze ==
    LET start == Position(0, 0)
        exit_pos == Position(2, 2)
        g0 == make_grid(3, 3)
        g1 == [g0 EXCEPT ![start].kind = "start", ![exit_pos].kind = "exit"]
        g2 == add_wall(g1, Position(0, 1), "S")
        g3 == add_wall(g2, Position(1, 0), "S")
        g4 == add_wall(g3, Position(1, 1), "E")
        g5 == [g4 EXCEPT ![start].edge_gates["E"] = GatePythonBasics,
                         ![Position(0, 1)].puzzle_id = GatePythonBasics]
    IN [maze_id |-> "maze-3x3-v1",
        maze_version |-> "1.0",
        width |-> 3,
        height |-> 3,
        start |-> start,
        exit |-> exit_pos,
        cells |-> g5]

(***************************************************************************)
(* maze.py: build_square_maze(size, seed, num_gates).  The builder is run  *)
(* step by step on a record b: the carving loop one iteration at a time    *)
(* (rng.choice is a free choice among the unvisited neighbours), then the  *)
(* breadth-first search and the path, then the gates (rng.sample is a free *)
(* choice of distinct path edges, in any order).                           *)
(***************************************************************************)
square_start(size, seed, num_gates) ==
    LET g0 == make_grid(size, size)
    IN [builder |-> "square",
        phase |-> "carve",
        size |-> size,
        seed |-> seed,
        num_gates |-> num_gates,
        grid |-> [pos \in DOMAIN g0 |-> [g0[pos] EXCEPT !.blocked = Directions]],
        visited |-> {Position(0, 0)},
        stack |-> <<Position(0, 0)>>,
        path_edges |-> <<>>,
        maze |-> Null]

\* The (npos, d) pairs of the cell on top of the stack, in Direction order.
unvisited_neighbors(b) ==
    LET pos == b.stack[Len(b.stack)]
        open(d) == LET npos == shift(pos, d)
                   IN /\ 0 <= npos.row /\ npos.row < b.size
                      /\ 0 <= npos.col /\ npos.col < b.size
                      /\ npos \notin b.visited
    IN [i \in DOMAIN SelectSeq(Direction, open) |->
           LET d == SelectSeq(Direction, open)[i]
           IN [npos |-> shift(pos, d), d |-> d]]

\* One iteration that carves: the wall to the chosen neighbour is removed on
\* both sides and the neighbour is pushed.
carve_one_sided(b, choice) ==
    LET pos == b.stack[Len(b.stack)]
    IN [b EXCEPT !.grid = [@ EXCEPT ![pos].blocked = @ \ {choice.d}],
                 !.visited = @ \cup {choice.npos},
                 !.stack = Append(@, choice.npos)]

carve_through(b, choice) ==
    LET pos == b.stack[Len(b.stack)]
        far == shift(choice.npos, choice.d)
        g1 == [b.grid EXCEPT ![pos].blocked = @ \ {choice.d},
                             ![choice.npos].blocked = @ \ {opposite(choice.d)}]
        g2 == IF far \in DOMAIN g1
              THEN [g1 EXCEPT ![choice.npos].blocked = @ \ {choice.d},
                              ![far].blocked = @ \ {opposite(choice.d)}]
              ELSE g1
    IN [b EXCEPT !.grid = g2,
                 !.visited = @ \cup {choice.npos},
                 !.stack = Append(@, choice.npos)]

carve(b, choice) ==
    LET pos == b.stack[Len(b.stack)]
    IN [b EXCEPT !.grid = [@ EXCEPT ![pos].blocked = @ \ {choice.d},
                                    ![choice.npos].blocked = @ \ {opposite(choice.d)}],
                 !.visited = @ \cup {choice.npos},
                 !.stack = Append(@, choice.npos)]

backtrack_stay(b) == b

\* One iteration that finds no unvisited neighbour: stack.pop().
backtrack(b) == [b EXCEPT !.stack = SubSeq(@, 1, Len(@) - 1)]

mark_start_exit(grid, start, exit_pos) ==
    [[grid EXCEPT ![start].kind = "start"] EXCEPT ![exit_pos].kind = "exit"]

\* The for-loop over the directions of one dequeued cell.
RECURSIVE bfs_scan(_, _, _, _, _)
bfs_scan(grid, cur, i, q, parent) ==
    IF i > Len(Direction) THEN [q |-> q, parent |-> parent]
    ELSE LET d == Direction[i]
             npos == shift(cur, d)
         IN IF d \in grid[cur].blocked \/ npos \in DOMAIN parent
            THEN bfs_scan(grid, cur, i + 1, q, parent)
            ELSE bfs_scan(grid, cur, i + 1, Append(q, npos),
                          parent @@ (npos :> [prev |-> cur, d |-> d]))

\* The breadth-first search from the start; the result is the parent map.
RECURSIVE bfs(_, _, _, _)
bfs(grid, exit_pos, q, parent) ==
    IF q = <<>> THEN parent
    ELSE LET cur == Head(q)
         IN IF cur = exit_pos THEN parent
            ELSE LET scanned == bfs_scan(grid, cur, 1, Tail(q), parent)
                 IN bfs(grid, exit_pos, scanned.q, scanned.parent)

RECURSIVE reconstruct_reversed(_, _)
reconstruct_reversed(parent, cur) ==
    IF parent[cur] = Null THEN <<>>
    ELSE <<[pos |-> cur, d |-> opposite(parent[cur].d)]>>
            \o reconstruct_reversed(parent, parent[cur].prev)

\* The edges (prev, d) from the exit back to the start.
RECURSIVE reconstruct(_, _)
reconstruct(parent, cur) ==
    IF parent[cur] = Null THEN <<>>
    ELSE <<[pos |-> parent[cur].prev, d |-> parent[cur].d]>>
            \o reconstruct(parent, parent[cur].prev)

find_path(b) ==
    LET start == Position(0, 0)
        exit_pos == Position(b.size - 1, b.size - 1)
        grid == mark_start_exit(b.grid, start, exit_pos)
        parent == bfs(grid, exit_pos, <<start>>, start :> Null)
    IN [b EXCEPT !.phase = "gates",
                 !.grid = grid,
                 !.path_edges = reconstruct(parent, exit_pos)]

min(a, b) == IF a < b THEN a ELSE b

\* The lists rng.sample(population, k) may return.
sample(population, k) ==
    {[i \in 1..k |-> population[f[i]]] :
        f \in {g \in [1..k -> DOMAIN population] :
                  \A i, j \in 1..k : i # j => g[i] # g[j]}}

\* rng = random.Random(seed): the stream of a seed is the same in every
\* call.  tape is the part of the stream that has been drawn already, one
\* entry per draw: n choices offered, size picks asked for, picks the
\* indices returned.  The k-th draw repeats the tape when the same request
\* was made there, and is free otherwise.
index_samples(n, size) ==
    {g \in [1..size -> 1..n] : \A i, j \in 1..size : i # j => g[i] # g[j]}

rng_draw_unseeded(tape, k, n, size) == index_samples(n, size)

rng_draw(tape, k, n, size) ==
    IF k \in DOMAIN tape /\ tape[k].n = n /\ tape[k].size = size
    THEN {tape[k].picks}
    ELSE index_samples(n, size)

\* The stream as known after the k-th draw returned picks.
drawn(tape, k, n, size, picks) ==
    IF k = Len(tape) + 1
    THEN Append(tape, [n |-> n, size |-> size, picks |-> picks])
    ELSE tape

gate_dynamic_unindexed(seed, i) == "gate-dynamic-" \o ToString(seed)

gate_dynamic(seed, i) == "gate-dynamic-" \o ToString(seed) \o "-" \o ToString(i)

RECURSIVE place_gates_mirrored(_, _, _, _)
place_gates_mirrored(grid, chosen_edges, i, seed) ==
    IF i >= Len(chosen_edges) THEN grid
    ELSE LET gate_pos == chosen_edges[i + 1].pos
             gate_dir == chosen_edges[i + 1].d
             gate_id == gate_dynamic(seed, i)
             far == shift(gate_pos, gate_dir)
         IN place_gates_mirrored(
                [grid EXCEPT ![gate_pos].edge_gates[gate_dir] = gate_id,
                             ![far].puzzle_id = gate_id,
                             ![far].edge_gates[opposite(gate_dir)] = gate_id],
                chosen_edges, i + 1, seed)

\* for i, (gate_pos, gate_dir) in enumerate(chosen_edges), from index i on.
RECURSIVE place_gates(_, _, _, _)
place_gates(grid, chosen_edges, i, seed) ==
    IF i >= Len(chosen_edges) THEN grid
    ELSE LET gate_pos == chosen_edges[i + 1].pos
             gate_dir == chosen_edges[i + 1].d
             gate_id == gate_dynamic(seed, i)
         IN place_gates([grid EXCEPT ![gate_pos].edge_gates[gate_dir] = gate_id,
                                     ![shift(gate_pos, gate_dir)].puzzle_id = gate_id],
                        chosen_edges, i + 1, seed)

square_maze(b, cells) ==
    [maze_id |-> "maze-" \o ToString(b.size) \o "x" \o ToString(b.size) \o "-v1",
     maze_version |-> "1.0",
     width |-> b.size,
     height |-> b.size,
     start |-> Position(0, 0),
     exit |-> Position(b.size - 1, b.size - 1),
     cells |-> cells]

finish(b, chosen_edges) ==
    [b EXCEPT !.phase = "done",
              !.maze = square_maze(b, place_gates(b.grid, chosen_edges, 0, b.seed))]

(***************************************************************************)
(* tests/conftest.py: the puzzle registry the engine is driven with        *)
(***************************************************************************)
Solve == <<"s","o","l","v","e">>

puzzles_get(puzzle_id) ==
    [id |-> puzzle_id,
     title |-> <<"TestPuzzle", puzzle_id>>,
     prompt |-> "Type 'solve' to bypass this gate.",
     correct |-> Solve]

check_case_insensitive(puzzle, answer) == lower(strip(answer)) = puzzle.correct

check(puzzle, answer) == strip(answer) = puzzle.correct

(***************************************************************************)
(* db.py: SqliteGameRepository.  The repository is the record of its       *)
(* tables: players and scores are the rows in insertion order, games maps  *)
(* a game id to its row, questions is the set of bank rows (one per id).   *)
(* log is the list of the save_game and record_score calls made since the  *)
(* running command (or the construction) started.  The created_at and      *)
(* updated_at columns are left out: no operation reads them.               *)
(***************************************************************************)
StartedAt == "2026-02-13T00:00:00Z"

\* str(uuid4()): an id no row of the table has.  Rows are never deleted, so
\* the n-th id made for a table is fresh.
uuid4(kind, n) == kind \o "-" \o ToString(n + 1)

\* json.dumps of a map with string keys: the text is held as the set of the
\* members (key, value) of the JSON object.  json.loads builds the map back.
json_dumps(obj) == {<<k, obj[k]>> : k \in DOMAIN obj}

json_loads(text) ==
    [k \in {member[1] : member \in text} |->
        (CHOOSE member \in text : member[1] = k)[2]]

\* SqliteGameRepository(path) on a new file: the tables are created empty.
open_repo ==
    [players |-> <<>>,
     games |-> <<>>,
     scores |-> <<>>,
     questions |-> {},
     log |-> <<>>]

\* The id create_game gives the first session row, and the ids the caller
\* of a game may ask for: the second has no row while one game is played.
GameId == uuid4("game", 0)
GameIds == {GameId, "game-2"}

get_or_create_player_always(r, handle) ==
    LET created == [id |-> uuid4("player", Len(r.players)), handle |-> handle]
    IN [r |-> [r EXCEPT !.players = Append(@, created)], player |-> created]

get_or_create_player(r, handle) ==
    LET found == {i \in DOMAIN r.players : r.players[i].handle = handle}
    IN IF found # {}
       THEN LET row == r.players[CHOOSE i \in found : \A j \in found : i <= j]
            IN [r |-> r, player |-> row]
       ELSE LET created == [id |-> uuid4("player", Len(r.players)), handle |-> handle]
            IN [r |-> [r EXCEPT !.players = Append(@, created)], player |-> created]

game_dict(row, state) ==
    [id |-> row.id, player_id |-> row.player_id, maze_id |-> row.maze_id,
     maze_version |-> row.maze_version, state |-> state, status |-> row.status]

create_game(r, player_id, maze_id, maze_version, initial_state) ==
    LET game_id == uuid4("game", Cardinality(DOMAIN r.games))
        row == [id |-> game_id, player_id |-> player_id, maze_id |-> maze_id,
                maze_version |-> maze_version,
                state_json |-> json_dumps(initial_state),
                status |-> "in_progress"]
    IN [r |-> [r EXCEPT !.games = (game_id :> row) @@ @],
        game |-> game_dict(row, initial_state)]

get_game(r, game_id) ==
    IF game_id \notin DOMAIN r.games THEN Null
    ELSE LET row == r.games[game_id]
         IN game_dict(row, json_loads(row.state_json))

\* raise KeyError(...)
KeyError == [raised |-> "KeyError"]

save_game_upsert(r, game_id, state, status) ==
    LET row == [id |-> game_id, player_id |-> None, maze_id |-> None,
                maze_version |-> None, state_json |-> json_dumps(state),
                status |-> status]
    IN [r EXCEPT !.games = (game_id :> (IF game_id \in DOMAIN @
                                         THEN [@[game_id] EXCEPT
                                                  !.state_json = json_dumps(state),
                                                  !.status = status]
                                         ELSE row)) @@ @,
                 !.log = Append(@, [op |-> "save_game", status |-> status])]

\* The repository after the call; KeyError when the call raises, and then
\* nothing was written.
save_game(r, game_id, state, status) ==
    IF game_id \notin DOMAIN r.games THEN KeyError
    ELSE [r EXCEPT !.games[game_id].state_json = json_dumps(state),
                   !.games[game_id].status = status,
                   !.log = Append(@, [op |-> "save_game", status |-> status])]

record_score(r, player_id, game_id, maze_id, maze_version, metrics) ==
    [r EXCEPT !.scores = Append(@, [id |-> uuid4("score", Len(r.scores)),
                                    player_id |-> player_id,
                                    game_id |-> game_id,
                                    maze_id |-> maze_id,
                                    maze_version |-> maze_version,
                                    metrics_json |-> json_dumps(metrics)]),
              !.log = Append(@, [op |-> "record_score", status |-> None])]

score_dict(row) ==
    [id |-> row.id, player_id |-> row.player_id, game_id |-> row.game_id,
     maze_id |-> row.maze_id, maze_version |-> row.maze_version,
     metrics |-> json_loads(row.metrics_json)]

\* The sort key (metrics.get("elapsed_seconds", inf), metrics.get("moves", inf))
\* of a is less than that of b.  float("inf") is greater than every int and
\* equal to itself.
metric_less(a, b, key) ==
    /\ key \in DOMAIN a.metrics
    /\ key \notin DOMAIN b.metrics \/ a.metrics[key] < b.metrics[key]

metric_equal(a, b, key) ==
    IF key \in DOMAIN a.metrics
    THEN key \in DOMAIN b.metrics /\ a.metrics[key] = b.metrics[key]
    ELSE key \notin DOMAIN b.metrics

key_less(a, b) ==
    \/ metric_less(a, b, "elapsed_seconds")
    \/ /\ metric_equal(a, b, "elapsed_seconds")
       /\ metric_less(a, b, "moves")

\* list.sort(key=...): stable, ascending.
RECURSIVE insert_sorted(_, _)
insert_sorted(items, s) ==
    IF items = <<>> THEN <<s>>
    ELSE IF key_less(s, Head(items)) THEN <<s>> \o items
    ELSE <<Head(items)>> \o insert_sorted(Tail(items), s)

RECURSIVE sort_by_key(_)
sort_by_key(items) ==
    IF items = <<>> THEN <<>>
    ELSE insert_sorted(sort_by_key(SubSeq(items, 1, Len(items) - 1)), items[Len(items)])

\* items[:limit]
slice_to(items, limit) ==
    IF limit >= 0 THEN SubSeq(items, 1, IF limit < Len(items) THEN limit ELSE Len(items))
    ELSE SubSeq(items, 1, IF Len(items) + limit > 0 THEN Len(items) + limit ELSE 0)

select_scores(r, maze_id) ==
    SelectSeq(r.scores, LAMBDA row : maze_id = None \/ row.maze_id = maze_id)

\* The items built from the rows, in the order of the rows.
score_dicts(rows) == [i \in DOMAIN rows |-> score_dict(rows[i])]

top_scores_unsorted(r, maze_id, limit) ==
    slice_to(score_dicts(select_scores(r, maze_id)), limit)

top_scores(r, maze_id, limit) ==
    slice_to(sort_by_key(score_dicts(select_scores(r, maze_id))), limit)

\* dict.get(key, default)
get(dict, key, default) == IF key \in DOMAIN dict THEN dict[key] ELSE default

\* The question bank: rows [id, question_text, correct_answer, category,
\* has_been_asked], one per id.  session.merge replaces the row of the id.
RECURSIVE merge_questions(_, _)
merge_questions(rows, questions) ==
    IF questions = <<>> THEN rows
    ELSE LET q == Head(questions)
             row == [id |-> get(q, "id", uuid4("question", Cardinality(rows))),
                     question_text |-> q.question_text,
                     correct_answer |-> q.correct_answer,
                     category |-> get(q, "category", ""),
                     has_been_asked |-> FALSE]
         IN merge_questions({x \in rows : x.id # row.id} \cup {row}, Tail(questions))

seed_questions_insert(r, questions) ==
    [r EXCEPT !.questions =
        @ \cup {[id |-> uuid4("question", Cardinality(@) + i),
                 question_text |-> questions[i].question_text,
                 correct_answer |-> questions[i].correct_answer,
                 category |-> get(questions[i], "category", ""),
                 has_been_asked |-> FALSE] : i \in DOMAIN questions}]

seed_questions(r, questions) ==
    [r EXCEPT !.questions = merge_questions(@, questions)]

get_random_question_any(r, category) ==
    LET rows == {x \in r.questions : category = None \/ x.category = category}
    IN IF rows = {} THEN {Null}
       ELSE {[id |-> x.id, question_text |-> x.question_text,
              correct_answer |-> x.correct_answer, category |-> x.category] : x \in rows}

\* The values get_random_question may return: random.choice over the rows
\* not yet asked (of the category, when one is given), None when there is none.
get_random_question(r, category) ==
    LET rows == {x \in r.questions :
                    /\ ~x.has_been_asked
                    /\ category = None \/ x.category = category}
    IN IF rows = {} THEN {Null}
       ELSE {[id |-> x.id, question_text |-> x.question_text,
              correct_answer |-> x.correct_answer, category |-> x.category] : x \in rows}

mark_question_asked(r, question_id) ==
    [r EXCEPT !.questions =
        {IF x.id = question_id THEN [x EXCEPT !.has_been_asked = TRUE] ELSE x : x \in @}]

reset_questions(r) ==
    [r EXCEPT !.questions = {[x EXCEPT !.has_been_asked = FALSE] : x \in @}]

(***************************************************************************)
(* main.py: GameEngine                                                     *)
(***************************************************************************)
\* The fixed mazes a game is played on.  The engine's maze field holds the
\* immutable Maze object it was constructed with.
Mazes == {build_minimal_3x3_maze}

maze_of(e) == e.maze

\* The gate identifiers in Python's string order, for sorted(): the ids
\* build_square_maze gives out, by seed and by index, come before the id of
\* the fixed maze.
SeedOrder == <<0, 7>>

GateOrder ==
    [k \in 1..(2 * 10) |->
        gate_dynamic(SeedOrder[((k - 1) \div 10) + 1], (k - 1) % 10)]
      \o <<GatePythonBasics>>

sorted(S) == SelectSeq(GateOrder, LAMBDA g : g \in S)

set(seq) == {seq[i] : i \in DOMAIN seq}

load_state_default(m, r, player_id, game_id) ==
    LET game == get_game(r, game_id)
    IN [maze |-> m,
        player_id |-> player_id,
        game_id |-> game_id,
        score_recorded |-> FALSE,
        pos |-> IF game = Null THEN m.start ELSE game.state.pos,
        move_count |-> IF game = Null THEN 0 ELSE game.state.move_count,
        solved_gates |-> IF game = Null THEN {} ELSE set(game.state.solved_gates),
        started_at |-> IF game = Null THEN None ELSE game.state.started_at,
        pending_gate_id |-> None,
        is_complete |-> IF game = Null THEN FALSE ELSE game.status = "completed"]

load_state(m, r, player_id, game_id) ==
    LET game == get_game(r, game_id)
    IN IF game = Null THEN KeyError
       ELSE LET game_state == game.state
            IN [maze |-> m,
                player_id |-> player_id,
                game_id |-> game_id,
                score_recorded |-> FALSE,
                pos |-> game_state.pos,
                move_count |-> game_state.move_count,
                solved_gates |-> set(game_state.solved_gates),
                started_at |-> game_state.started_at,
                pending_gate_id |-> None,
                is_complete |-> (game.status = "completed")]

\* The wall clock as the engine reads it: an ISO-8601 UTC string.
utc_now_iso == "2026-02-13T00:01:30Z"

\* datetime.fromisoformat on the timestamps that occur, as seconds since
\* StartedAt; every other string is unparsable (ValueError).
IsoSeconds == (StartedAt :> 0) @@ (utc_now_iso :> 90)

elapsed_seconds(started_at) ==
    IF started_at = None \/ started_at = "" THEN 0
    ELSE IF started_at \notin DOMAIN IsoSeconds THEN 0
    ELSE LET d == IsoSeconds[utc_now_iso] - IsoSeconds[started_at]
         IN IF d > 0 THEN d ELSE 0

serialize_state_ungated(e) ==
    [pos |-> e.pos,
     move_count |-> e.move_count,
     solved_gates |-> <<>>,
     started_at |-> e.started_at,
     ended_at |-> IF e.is_complete THEN utc_now_iso ELSE None]

serialize_state(e) ==
    [pos |-> e.pos,
     move_count |-> e.move_count,
     solved_gates |-> sorted(e.solved_gates),
     started_at |-> e.started_at,
     ended_at |-> IF e.is_complete THEN utc_now_iso ELSE None]

persist_in_progress(e, r, status) ==
    save_game(r, e.game_id, serialize_state(e), "in_progress")

persist(e, r, status) == save_game(r, e.game_id, serialize_state(e), status)

\* The token None (no argument given), as distinct from every string.
NoToken == <<None>>

direction_from_token_short(token) ==
    IF token = NoToken THEN None
    ELSE LET t == upper(strip(token))
         IN IF Len(t) = 1 /\ t[1] \in Directions THEN t[1] ELSE None

direction_from_token(token) ==
    IF token = NoToken THEN None
    ELSE LET t0 == upper(strip(token))
             t == CASE t0 = <<"N","O","R","T","H">> -> <<"N">>
                    [] t0 = <<"S","O","U","T","H">> -> <<"S">>
                    [] t0 = <<"E","A","S","T">> -> <<"E">>
                    [] t0 = <<"W","E","S","T">> -> <<"W">>
                    [] OTHER -> t0
         IN IF Len(t) = 1 /\ t[1] \in Directions THEN t[1] ELSE None

pending_puzzle_payload(e) ==
    IF e.pending_gate_id = None THEN Null
    ELSE LET puzzle == puzzles_get(e.pending_gate_id)
         IN [puzzle_id |-> puzzle.id, title |-> puzzle.title, prompt |-> puzzle.prompt]

\* sorted(d.name for d in available_moves)
available_move_tokens(e) ==
    SelectSeq(<<"E", "N", "S", "W">>, LAMBDA d : d \in available_moves(maze_of(e), e.pos))

maybe_finish_unguarded(e, r) ==
    IF e.pos # maze_of(e).exit THEN [completed |-> FALSE, e |-> e, r |-> r]
    ELSE LET e1 == [e EXCEPT !.is_complete = TRUE]
             r1 == persist(e1, r, "completed")
             metrics == [elapsed_seconds |-> elapsed_seconds(e1.started_at),
                         moves |-> e1.move_count,
                         puzzles_solved |-> Cardinality(e1.solved_gates)]
         IN [completed |-> TRUE,
             e |-> [e1 EXCEPT !.score_recorded = TRUE],
             r |-> record_score(r1, e1.player_id, e1.game_id, maze_of(e1).maze_id,
                                maze_of(e1).maze_version, metrics)]

maybe_finish_unsaved(e, r) ==
    IF e.pos # maze_of(e).exit THEN [completed |-> FALSE, e |-> e, r |-> r]
    ELSE [completed |-> TRUE, e |-> [e EXCEPT !.is_complete = TRUE], r |-> r]

maybe_finish(e, r) ==
    IF e.pos # maze_of(e).exit THEN [completed |-> FALSE, e |-> e, r |-> r]
    ELSE LET e1 == [e EXCEPT !.is_complete = TRUE]
             r1 == persist(e1, r, "completed")
             metrics == [elapsed_seconds |-> elapsed_seconds(e1.started_at),
                         moves |-> e1.move_count,
                         puzzles_solved |-> Cardinality(e1.solved_gates)]
         IN IF ~e1.score_recorded
            THEN [completed |-> TRUE,
                  e |-> [e1 EXCEPT !.score_recorded = TRUE],
                  r |-> record_score(r1, e1.player_id, e1.game_id, maze_of(e1).maze_id,
                                     maze_of(e1).maze_version, metrics)]
            ELSE [completed |-> TRUE, e |-> e1, r |-> r1]

maybe_finish_raises_guarded(e, r) ==
    LET e1 == [e EXCEPT !.is_complete = TRUE, !.score_recorded = TRUE]
    IN [e |-> e1, r |-> persist(e1, r, "completed")]

\* _maybe_finish at the exit when repo.record_score raises: what the engine
\* and the repository hold when the exception leaves the method.
maybe_finish_raises(e, r) ==
    LET e1 == [e EXCEPT !.is_complete = TRUE]
    IN [e |-> e1, r |-> persist(e1, r, "completed")]

make_view(e) ==
    [pos |-> e.pos,
     kind |-> cell(maze_of(e), e.pos).kind,
     available_moves |-> available_move_tokens(e),
     pending_puzzle |-> pending_puzzle_payload(e),
     is_complete |-> e.is_complete,
     move_count |-> e.move_count]

GameOutput(e, r, messages, did_persist) ==
    [e |-> e, r |-> r, view |-> make_view(e), messages |-> messages,
     did_persist |-> did_persist]

gate_blocks_never(e, gate_id) == FALSE

gate_blocks_solved(e, gate_id) == gate_id # None /\ gate_id \in e.solved_gates

gate_blocks(e, gate_id) == gate_id # None /\ gate_id \notin e.solved_gates

answer_correct_unsolved(e, r) ==
    LET e1 == [e EXCEPT !.pending_gate_id = None]
    IN GameOutput(e1, persist(e1, r, "in_progress"), <<"Correct.">>, TRUE)

answer_correct_pending(e, r) ==
    LET e1 == [e EXCEPT !.solved_gates = @ \cup {e.pending_gate_id}]
    IN GameOutput(e1, persist(e1, r, "in_progress"), <<"Correct.">>, TRUE)

answer_correct(e, r) ==
    LET e1 == [e EXCEPT !.solved_gates = @ \cup {e.pending_gate_id},
                        !.pending_gate_id = None]
    IN GameOutput(e1, persist(e1, r, "in_progress"), <<"Correct.">>, TRUE)

handle_answer(e, r, args) ==
    IF e.pending_gate_id = None
    THEN GameOutput(e, r, <<"No pending puzzle.">>, FALSE)
    ELSE LET answer == strip(join(args))
             puzzle == puzzles_get(e.pending_gate_id)
         IN IF check(puzzle, answer)
            THEN answer_correct(e, r)
            ELSE GameOutput(e, r, <<"Incorrect answer.">>, FALSE)

go_blocked_counted(e, r) ==
    GameOutput([e EXCEPT !.move_count = @ + 1], r, <<"Blocked path.">>, FALSE)

go_blocked_saving(e, r) ==
    GameOutput(e, persist(e, r, "in_progress"), <<"Blocked path.">>, FALSE)

go_blocked(e, r) == GameOutput(e, r, <<"Blocked path.">>, FALSE)

go_move_unfinished(e, r, nxt) ==
    LET e1 == [e EXCEPT !.pos = nxt, !.move_count = @ + 1]
    IN GameOutput(e1, persist(e1, r, "in_progress"), <<>>, TRUE)

go_move(e, r, nxt) ==
    LET e1 == [e EXCEPT !.pos = nxt, !.move_count = @ + 1]
        fin == maybe_finish(e1, r)
    IN IF ~fin.completed
       THEN GameOutput(fin.e, persist(fin.e, fin.r, "in_progress"), <<>>, TRUE)
       ELSE GameOutput(fin.e, fin.r, <<>>, TRUE)

handle_direction_unchecked(e, r, direction) ==
    IF direction = None
    THEN GameOutput(e, r, <<"Invalid direction.">>, FALSE)
    ELSE LET gate_id == gate_id_for(maze_of(e), e.pos, direction)
         IN IF gate_blocks(e, gate_id)
            THEN GameOutput([e EXCEPT !.pending_gate_id = gate_id], r,
                            <<"Puzzle required.">>, FALSE)
            ELSE LET nxt == next_pos(maze_of(e), e.pos, direction)
                 IN IF nxt = Null THEN go_blocked(e, r) ELSE go_move(e, r, nxt)

handle_direction(e, r, direction) ==
    IF direction = None
    THEN GameOutput(e, r, <<"Invalid direction.">>, FALSE)
    ELSE IF e.pending_gate_id # None
    THEN GameOutput(e, r, <<"Solve the pending puzzle first.">>, FALSE)
    ELSE LET gate_id == gate_id_for(maze_of(e), e.pos, direction)
         IN IF gate_blocks(e, gate_id)
            THEN GameOutput([e EXCEPT !.pending_gate_id = gate_id], r,
                            <<"Puzzle required.">>, FALSE)
            ELSE LET nxt == next_pos(maze_of(e), e.pos, direction)
                 IN IF nxt = Null THEN go_blocked(e, r) ELSE go_move(e, r, nxt)

handle_unknown_saving(e, r) ==
    GameOutput(e, persist(e, r, "in_progress"), <<>>, TRUE)

handle_unknown(e, r) == GameOutput(e, r, <<"Unknown command.">>, FALSE)

Look == <<"l","o","o","k">>
Map == <<"m","a","p">>
Save == <<"s","a","v","e">>
Answer == <<"a","n","s","w","e","r">>
Go == <<"g","o">>
MoveVerbs == {<<"n">>, <<"s">>, <<"e">>, <<"w">>}

normal_verb(command) == lower(strip(command.verb))

handle(e, r, command) ==
    LET verb == normal_verb(command)
        args == command.args
    IN IF verb \in {Look, Map} THEN GameOutput(e, r, <<>>, FALSE)
       ELSE IF verb = Save
       THEN GameOutput(e,
                       persist(e, r, IF e.is_complete THEN "completed" ELSE "in_progress"),
                       <<"Progress saved.">>, TRUE)
       ELSE IF verb = Answer THEN handle_answer(e, r, args)
       ELSE IF verb \in MoveVerbs THEN handle_direction(e, r, direction_from_token(verb))
       ELSE IF verb = Go
       THEN handle_direction(e, r,
                direction_from_token(IF args # <<>> THEN args[1] ELSE NoToken))
       ELSE handle_unknown(e, r)

(***************************************************************************)
(* The state: one game of one player; the live GameEngine instance, the    *)
(* repository rows, and the GameOutput of the last call.                   *)
(***************************************************************************)
VARIABLES
    engine,        \* the fields of the live GameEngine instance
    repo,          \* the repository: game row, score rows, calls of the last command
    out,           \* the last call and the GameOutput it returned
    record_calls,  \* record_score calls made by the live engine instance
    reloads,       \* engine instances constructed after the first
    gen            \* the maze builder call under way (Null when none is)

vars == <<engine, repo, out, record_calls, reloads, gen>>

Cmd(verb, args) == [verb |-> verb, args |-> args]

NoCommand == Cmd(<<>>, <<>>)

\* The commands a caller sends.
Commands ==
    { Cmd(<<" ","L","o","o","k"," ">>, <<>>), Cmd(Map, <<>>),
      Cmd(Save, <<>>),
      Cmd(Answer, <<Solve>>),
      Cmd(Answer, << <<"S","O","L","V","E">> >>),
      Cmd(Answer, << <<"s","o">>, <<"l","v","e">> >>),
      Cmd(Answer, <<>>),
      Cmd(<<"n">>, <<>>), Cmd(<<"s">>, <<>>), Cmd(<<"e">>, <<>>), Cmd(<<"w">>, <<>>),
      Cmd(Go, << <<"N">> >>),
      Cmd(Go, << <<"s","o","u","t","h">> >>),
      Cmd(<<"G","O">>, << <<" ","E","a","s","t"," ">> >>),
      Cmd(Go, << <<"w">> >>),
      Cmd(Go, <<>>), Cmd(Go, << <<"u","p">> >>),
      Cmd(<<"w","a","r","p">>, << <<"n","o","w">> >>),
      Cmd(<<"h","i","n","t">>, <<>>),
      Cmd(<<>>, <<>>) }

\* The commands by the branch of handle their verb selects.
LookCommands == {c \in Commands : normal_verb(c) \in {Look, Map}}
SaveCommands == {c \in Commands : normal_verb(c) = Save}
AnswerCommands == {c \in Commands : normal_verb(c) = Answer}
MoveVerbCommands == {c \in Commands : normal_verb(c) \in MoveVerbs}
GoCommands == {c \in Commands : normal_verb(c) = Go}
UnknownCommands ==
    Commands \ (LookCommands \cup SaveCommands \cup AnswerCommands
                  \cup MoveVerbCommands \cup GoCommands)

RecordScoreCalls(log) == Cardinality({i \in DOMAIN log : log[i].op = "record_score"})

\* GameEngine(maze, repo, puzzles, player_id, game_id)
GameEngine(m, r, player_id, game_id) == load_state(m, r, player_id, game_id)

Output(op, command, res) ==
    [op |-> op, command |-> command, view |-> res.view, messages |-> res.messages,
     did_persist |-> res.did_persist]

\* The handle the player of the game signs in with.
Handle == "trinity"

Init ==
    \E m \in Mazes :
        LET initial_state == [pos |-> m.start, move_count |-> 0,
                              solved_gates |-> <<>>, started_at |-> StartedAt]
            joined == get_or_create_player(open_repo, Handle)
            created == create_game(joined.r, joined.player.id, m.maze_id,
                                   m.maze_version, initial_state)
            r == created.r
            e == GameEngine(m, r, joined.player.id, created.game.id)
        IN /\ repo = r
           /\ engine = e
           /\ out = Output("construct", NoCommand, GameOutput(e, r, <<>>, FALSE))
           /\ record_calls = 0
           /\ reloads = 0
           /\ gen = Null

\* The questions a caller seeds the bank with before play.
DbQuestions ==
    <<[id |-> "db-q1", question_text |-> "DB question: what is 1+1?",
       correct_answer |-> "2", category |-> "test"]>>

\* The state after construction on a repository whose bank has been seeded.
InitSeeded ==
    \E m \in Mazes :
        LET initial_state == [pos |-> m.start, move_count |-> 0,
                              solved_gates |-> <<>>, started_at |-> StartedAt]
            joined == get_or_create_player(open_repo, Handle)
            created == create_game(joined.r, joined.player.id, m.maze_id,
                                   m.maze_version, initial_state)
            r == seed_questions(created.r, DbQuestions)
            e == GameEngine(m, r, joined.player.id, created.game.id)
        IN /\ repo = r
           /\ engine = e
           /\ out = Output("construct", NoCommand, GameOutput(e, r, <<>>, FALSE))
           /\ record_calls = 0
           /\ reloads = 0
           /\ gen = Null

\* engine.handle(command)
Apply(command) ==
    \E res \in {handle(engine, [repo EXCEPT !.log = <<>>], command)} :
       /\ engine' = res.e
       /\ repo' = res.r
       /\ out' = Output("handle", command, res)
       /\ record_calls' = record_calls + RecordScoreCalls(res.r.log)
       /\ UNCHANGED <<reloads, gen>>

HandleLook ==
    \E command \in LookCommands :
        /\ Apply(command)

HandleSave ==
    \E command \in SaveCommands :
        /\ Apply(command)

HandleAnswer ==
    \E command \in AnswerCommands :
        /\ Apply(command)

HandleMoveVerb ==
    \E command \in MoveVerbCommands :
        /\ engine.move_count < MaxMoves
        /\ Apply(command)

HandleGo ==
    \E command \in GoCommands :
        /\ engine.move_count < MaxMoves
        /\ Apply(command)

HandleUnknown ==
    \E command \in UnknownCommands :
        /\ Apply(command)

\* The engine is discarded and a new one is constructed from the repository.
Construct ==
    /\ reloads < MaxReloads
    /\ \E game_id \in GameIds :
         LET r == [repo EXCEPT !.log = <<>>]
             e == GameEngine(maze_of(engine), r, engine.player_id, game_id)
         IN /\ e # KeyError
            /\ engine' = e
            /\ repo' = r
            /\ out' = Output("construct", NoCommand, GameOutput(e, r, <<>>, FALSE))
    /\ record_calls' = 0
    /\ reloads' = reloads + 1
    /\ UNCHANGED gen

\* What the caller of a constructor that raised is left with.
Raised(game_id, error) ==
    [op |-> "raise", command |-> NoCommand, game_id |-> game_id, error |-> error]

\* A construction that raises: no engine comes of it, the live one stays.
ConstructFails ==
    \E game_id \in GameIds :
        LET r == [repo EXCEPT !.log = <<>>]
            e == GameEngine(maze_of(engine), r, engine.player_id, game_id)
        IN /\ e = KeyError
           /\ repo' = r
           /\ out' = Raised(game_id, e.raised)
           /\ UNCHANGED <<engine, record_calls, reloads, gen>>

Next ==
    \/ HandleLook
    \/ HandleSave
    \/ HandleAnswer
    \/ HandleMoveVerb
    \/ HandleGo
    \/ HandleUnknown
    \/ Construct
    \/ ConstructFails

Spec == Init /\ [][Next]_vars

SpecSeeded == InitSeeded /\ [][Next]_vars

(***************************************************************************)
(* The maze builders as a state machine: a call of build_minimal_3x3_maze  *)
(* or of build_square_maze(size, seed, num_gates), run to the maze it      *)
(* returns.  No engine exists while a maze is built.                       *)
(***************************************************************************)
\* The arguments the square builder is called with.
Sizes == {1, 2, 3}
Seeds == {0, 7}

minimal_start ==
    [builder |-> "minimal", phase |-> "minimal", size |-> 3, seed |-> 0, num_gates |-> 1,
     grid |-> make_grid(3, 3), visited |-> {}, stack |-> <<>>,
     path_edges |-> <<>>, maze |-> Null]

InitMaze ==
    /\ engine = Null
    /\ repo = Null
    /\ out = Null
    /\ record_calls = 0
    /\ reloads = 0
    /\ \/ gen = minimal_start
       \/ \E size \in Sizes, seed \in Seeds, num_gates \in 0..MaxGates :
             gen = square_start(size, seed, num_gates)

BuildMinimal ==
    /\ gen.phase = "minimal"
    /\ gen' = [gen EXCEPT !.phase = "done", !.maze = build_minimal_3x3_maze]
    /\ UNCHANGED <<engine, repo, out, record_calls, reloads>>

\* while stack: ... if unvisited_neighbors: rng.choice, carve, push
Carve ==
    /\ gen.phase = "carve"
    /\ gen.stack # <<>>
    /\ \E i \in DOMAIN unvisited_neighbors(gen) :
          gen' = carve(gen, unvisited_neighbors(gen)[i])
    /\ UNCHANGED <<engine, repo, out, record_calls, reloads>>

\* while stack: ... else: stack.pop()
Backtrack ==
    /\ gen.phase = "carve"
    /\ gen.stack # <<>>
    /\ unvisited_neighbors(gen) = <<>>
    /\ gen' = backtrack(gen)
    /\ UNCHANGED <<engine, repo, out, record_calls, reloads>>

\* The stack is empty: start and exit are marked, the path is searched.
FindPath ==
    /\ gen.phase = "carve"
    /\ gen.stack = <<>>
    /\ gen' = find_path(gen)
    /\ UNCHANGED <<engine, repo, out, record_calls, reloads>>

\* The gates are sampled and placed, the Maze is returned.
PlaceGates ==
    /\ gen.phase = "gates"
    /\ \E chosen_edges \in sample(gen.path_edges,
                                   min(gen.num_gates, Len(gen.path_edges))) :
          gen' = finish(gen, chosen_edges)
    /\ UNCHANGED <<engine, repo, out, record_calls, reloads>>

NextMaze ==
    \/ BuildMinimal
    \/ Carve
    \/ Backtrack
    \/ FindPath
    \/ PlaceGates

SpecMaze == InitMaze /\ [][NextMaze]_vars

\* The carving loop keeps running: while the stack is not empty the next
\* iteration, a push or a pop, is taken.
SpecMazeFair == SpecMaze /\ WF_vars(Carve) /\ WF_vars(Backtrack)

(***************************************************************************)
(* Two calls of build_square_maze with the same arguments, each with its   *)
(* own Random(seed), taking turns step by step.  draws counts the draws    *)
(* each call has made from the stream of the seed.                         *)
(***************************************************************************)
other(t) == IF t = "first" THEN "second" ELSE "first"

\* The call whose turn is next after a step of t.
next_turn(g, t) == IF g[other(t)].phase # "done" THEN other(t) ELSE t

InitTwin ==
    /\ engine = Null
    /\ repo = Null
    /\ out = Null
    /\ record_calls = 0
    /\ reloads = 0
    /\ \E size \in Sizes, seed \in Seeds, num_gates \in 0..MaxGates :
          gen = [phase |-> "twin",
                 turn |-> "first",
                 first |-> square_start(size, seed, num_gates),
                 second |-> square_start(size, seed, num_gates),
                 tape |-> <<>>,
                 draws |-> [first |-> 0, second |-> 0]]

TwinCarve ==
    /\ gen[gen.turn].phase = "carve"
    /\ gen[gen.turn].stack # <<>>
    /\ LET t == gen.turn
           b == gen[t]
           k == gen.draws[t] + 1
           n == Len(unvisited_neighbors(b))
       IN /\ n > 0
          /\ \E picks \in rng_draw(gen.tape, k, n, 1) :
                gen' = [gen EXCEPT ![t] = carve(b, unvisited_neighbors(b)[picks[1]]),
                                   !.tape = drawn(@, k, n, 1, picks),
                                   !.draws[t] = k,
                                   !.turn = next_turn(gen, t)]
    /\ UNCHANGED <<engine, repo, out, record_calls, reloads>>

TwinBacktrack ==
    /\ gen[gen.turn].phase = "carve"
    /\ gen[gen.turn].stack # <<>>
    /\ unvisited_neighbors(gen[gen.turn]) = <<>>
    /\ gen' = [gen EXCEPT ![gen.turn] = backtrack(@),
                          !.turn = next_turn(gen, gen.turn)]
    /\ UNCHANGED <<engine, repo, out, record_calls, reloads>>

TwinFindPath ==
    /\ gen[gen.turn].phase = "carve"
    /\ gen[gen.turn].stack = <<>>
    /\ gen' = [gen EXCEPT ![gen.turn] = find_path(@),
                          !.turn = next_turn(gen, gen.turn)]
    /\ UNCHANGED <<engine, repo, out, record_calls, reloads>>

TwinPlaceGates ==
    /\ gen[gen.turn].phase = "gates"
    /\ LET t == gen.turn
           b == gen[t]
           k == gen.draws[t] + 1
           n == Len(b.path_edges)
           gates_to_place == min(b.num_gates, n)
       IN \E picks \in rng_draw(gen.tape, k, n, gates_to_place) :
             gen' = [gen EXCEPT ![t] = finish(b, [i \in 1..gates_to_place |->
                                                   b.path_edges[picks[i]]]),
                                !.tape = drawn(@, k, n, gates_to_place, picks),
                                !.draws[t] = k,
                                !.turn = next_turn(gen, t)]
    /\ UNCHANGED <<engine, repo, out, record_calls, reloads>>

NextTwin ==
    \/ TwinCarve
    \/ TwinBacktrack
    \/ TwinFindPath
    \/ TwinPlaceGates

SpecTwin == InitTwin /\ [][NextTwin]_vars

(***************************************************************************)
(* The repository called on its own: players and game sessions.  out is    *)
(* the last call with what it returned or raised.                          *)
(***************************************************************************)
MaxPlayers == 3
MaxGames == 2

\* The handles players sign in with.
Handles == {"neo", "trinity"}

\* The state blobs callers store: JSON maps.
StateBlobs ==
    { [pos |-> [row |-> 0, col |-> 0], move_count |-> 0,
       solved_gates |-> <<>>, started_at |-> StartedAt],
      [pos |-> [row |-> 1, col |-> 1], move_count |-> 3,
       solved_gates |-> <<"gate-1">>, started_at |-> StartedAt] }

Statuses == {"in_progress", "completed"}

\* The game ids callers ask for: those create_game may have given, and one
\* it never gives.
AskedGameIds == {uuid4("game", n) : n \in 0..MaxGames}

InitSessions ==
    /\ repo = open_repo
    /\ out = [op |-> "open_repo"]
    /\ engine = Null
    /\ record_calls = 0
    /\ reloads = 0
    /\ gen = Null

GetOrCreatePlayer ==
    /\ Len(repo.players) < MaxPlayers
    /\ \E name \in Handles :
          LET res == get_or_create_player([repo EXCEPT !.log = <<>>], name)
          IN /\ repo' = res.r
             /\ out' = [op |-> "get_or_create_player", handle |-> name,
                        player |-> res.player]
    /\ UNCHANGED <<engine, record_calls, reloads, gen>>

CreateGame ==
    /\ Cardinality(DOMAIN repo.games) < MaxGames
    /\ \E i \in DOMAIN repo.players, initial_state \in StateBlobs :
          LET res == create_game([repo EXCEPT !.log = <<>>], repo.players[i].id,
                                 "maze-3x3-v1", "1.0", initial_state)
          IN /\ repo' = res.r
             /\ out' = [op |-> "create_game", initial_state |-> initial_state,
                        game |-> res.game]
    /\ UNCHANGED <<engine, record_calls, reloads, gen>>

GetGame ==
    /\ \E game_id \in AskedGameIds :
          /\ repo' = [repo EXCEPT !.log = <<>>]
          /\ out' = [op |-> "get_game", game_id |-> game_id,
                     game |-> get_game(repo, game_id)]
    /\ UNCHANGED <<engine, record_calls, reloads, gen>>

\* save_game(game_id, state, status): the call either writes or raises.
SaveGame ==
    /\ \E game_id \in AskedGameIds, state \in StateBlobs, status \in Statuses :
          LET r == [repo EXCEPT !.log = <<>>]
              res == save_game(r, game_id, state, status)
          IN /\ repo' = IF res = KeyError THEN r ELSE res
             /\ out' = [op |-> "save_game", game_id |-> game_id,
                        error |-> IF res = KeyError THEN res.raised ELSE None]
    /\ UNCHANGED <<engine, record_calls, reloads, gen>>

NextSessions ==
    \/ GetOrCreatePlayer
    \/ CreateGame
    \/ GetGame
    \/ SaveGame

SpecSessions == InitSessions /\ [][NextSessions]_vars

(***************************************************************************)
(* The repository called on its own: the score table.                      *)
(***************************************************************************)
MaxScores == 3

MazeIds == {"maze-3x3-v1", "maze-5x5-v1"}

\* The scores callers record, as (maze_id, metrics): a metric may be missing.
RecordedScores ==
    ({"maze-3x3-v1"} \X { [elapsed_seconds |-> 9, moves |-> 10],
                          [elapsed_seconds |-> 9, moves |-> 40],
                          [elapsed_seconds |-> 12, moves |-> 20],
                          [moves |-> 5],
                          [elapsed_seconds |-> 9] })
       \cup ({"maze-5x5-v1"} \X { [elapsed_seconds |-> 9, moves |-> 10],
                                  [moves |-> 5] })

\* The limits callers ask for; 10 is the default.
Limits == {0, 1, 2, 10}

InitScores ==
    /\ repo = open_repo
    /\ out = [op |-> "open_repo"]
    /\ engine = Null
    /\ record_calls = 0
    /\ reloads = 0
    /\ gen = Null

RecordScore ==
    /\ Len(repo.scores) < MaxScores
    /\ \E score \in RecordedScores :
          /\ repo' = record_score([repo EXCEPT !.log = <<>>], uuid4("player", 0),
                                  GameId, score[1], "1.0", score[2])
          /\ out' = [op |-> "record_score", maze_id |-> score[1], metrics |-> score[2]]
    /\ UNCHANGED <<engine, record_calls, reloads, gen>>

TopScores ==
    /\ \E maze_id \in MazeIds \cup {None}, limit \in Limits :
          /\ repo' = [repo EXCEPT !.log = <<>>]
          /\ out' = [op |-> "top_scores", maze_id |-> maze_id, limit |-> limit,
                     items |-> top_scores(repo, maze_id, limit)]
    /\ UNCHANGED <<engine, record_calls, reloads, gen>>

NextScores ==
    \/ RecordScore
    \/ TopScores

SpecScores == InitScores /\ [][NextScores]_vars

(***************************************************************************)
(* The repository called on its own: the question bank.                    *)
(***************************************************************************)
Question(id, question_text, correct_answer, category) ==
    [id |-> id, question_text |-> question_text,
     correct_answer |-> correct_answer, category |-> category]

\* The lists callers seed the bank with: questions carry their id; the
\* category may be left out.  The second list puts other content under q1.
SeedLists ==
    { << Question("q1", "What is 1+1?", "2", "math"),
         Question("q2", "What is 2+2?", "4", "math"),
         [id |-> "q3", question_text |-> "What is 3+3?", correct_answer |-> "6"] >>,
      << Question("q1", "Which port does SSH use?", "22", "net") >>,
      << Question("q4", "Which port does HTTPS use?", "443", "net") >> }

\* The ids callers mark as asked; the last is the id of no question.
QuestionIds == {"q1", "q2", "q3", "q4", "q9"}

Categories == {"math", "net", ""}

InitBank ==
    /\ repo = open_repo
    /\ out = [op |-> "open_repo"]
    /\ engine = Null
    /\ record_calls = 0
    /\ reloads = 0
    /\ gen = Null

\* again: the call repeats the call before it, list and all.
SeedQuestions ==
    /\ \E questions \in SeedLists :
          /\ repo' = seed_questions([repo EXCEPT !.log = <<>>], questions)
          /\ out' = [op |-> "seed_questions", questions |-> questions,
                     again |-> (out.op = "seed_questions" /\ out.questions = questions)]
    /\ UNCHANGED <<engine, record_calls, reloads, gen>>

MarkQuestionAsked ==
    /\ \E question_id \in QuestionIds :
          /\ repo' = mark_question_asked([repo EXCEPT !.log = <<>>], question_id)
          /\ out' = [op |-> "mark_question_asked", question_id |-> question_id]
    /\ UNCHANGED <<engine, record_calls, reloads, gen>>

ResetQuestions ==
    /\ repo' = reset_questions([repo EXCEPT !.log = <<>>])
    /\ out' = [op |-> "reset_questions"]
    /\ UNCHANGED <<engine, record_calls, reloads, gen>>

GetRandomQuestion ==
    /\ \E category \in Categories \cup {None} :
          \E question \in get_random_question(repo, category) :
             /\ repo' = [repo EXCEPT !.log = <<>>]
             /\ out' = [op |-> "get_random_question", category |-> category,
                        question |-> question]
    /\ UNCHANGED <<engine, record_calls, reloads, gen>>

NextBank ==
    \/ SeedQuestions
    \/ MarkQuestionAsked
    \/ ResetQuestions
    \/ GetRandomQuestion

SpecBank == InitBank /\ [][NextBank]_vars

(***************************************************************************)
(* One game walked with direction commands in their different forms.       *)
(***************************************************************************)
\* The spellings of a direction: the letter and the word, in lower case.
ShortForm(d) == <<LowerChar(d)>>

LongForm(d) ==
    CASE d = "N" -> <<"n","o","r","t","h">>
      [] d = "S" -> <<"s","o","u","t","h">>
      [] d = "E" -> <<"e","a","s","t">>
      [] d = "W" -> <<"w","e","s","t">>

\* A spelling in lower case, in upper case, capitalised, and capitalised
\* with blanks around it.
Spellings(word) ==
    LET capitalised == <<UpperChar(word[1])>> \o Tail(word)
    IN {word, upper(word), capitalised, <<" ">> \o capitalised \o <<" ">>}

\* The commands that ask for a move in each direction.
CommandForms ==
    [d \in Directions |->
        {Cmd(verb, <<>>) : verb \in Spellings(ShortForm(d))}
           \cup {Cmd(Go, <<token>>) :
                    token \in Spellings(ShortForm(d)) \cup Spellings(LongForm(d))}
           \cup {Cmd(<<"G","O">>, <<LongForm(d)>>)}]

\* go commands whose direction is missing or is no direction.
BadGoCommands ==
    {Cmd(Go, <<>>), Cmd(Go, << <<"u","p">> >>), Cmd(Go, << <<>> >>),
     Cmd(Go, << <<"n","o">> >>), Cmd(Go, << <<"n","o","r","t","h","s">> >>),
     Cmd(Go, << <<"n"," ","e">> >>)}

\* A move asked for with the verb alone.
WalkVerb ==
    \E d \in Directions :
        /\ engine.move_count < MaxMoves
        /\ Apply(Cmd(ShortForm(d), <<>>))

\* A move asked for with go and the direction as a word.
WalkGo ==
    \E d \in Directions :
        /\ engine.move_count < MaxMoves
        /\ Apply(Cmd(Go, <<LongForm(d)>>))

WalkBadGo ==
    \E command \in BadGoCommands :
        /\ Apply(command)

WalkAnswer ==
    /\ Apply(Cmd(Answer, <<Solve>>))

NextWalk ==
    \/ WalkVerb
    \/ WalkGo
    \/ WalkBadGo
    \/ WalkAnswer

SpecWalk == Init /\ [][NextWalk]_vars

(***************************************************************************)
(* The walked game on a repository whose record_score can fail: the        *)
(* exception leaves _maybe_finish and handle, and the caller, left without *)
(* a GameOutput, goes on with the same engine.                             *)
(***************************************************************************)
\* What the caller of a handle that raised in record_score is left with.
ScoreError(command) ==
    [op |-> "raise", command |-> command, error |-> "record_score"]

\* A move on which handle calls record_score, and record_score raises.
GoScoreFails ==
    /\ engine.move_count < MaxMoves
    /\ \E d \in Directions :
          LET command == Cmd(Go, <<ShortForm(d)>>)
              r == [repo EXCEPT !.log = <<>>]
              nxt == next_pos(maze_of(engine), engine.pos, d)
          IN /\ RecordScoreCalls(handle(engine, r, command).r.log) > 0
             /\ \E fin \in {maybe_finish_raises(
                               [engine EXCEPT !.pos = nxt, !.move_count = @ + 1], r)} :
                   /\ engine' = fin.e
                   /\ repo' = fin.r
             /\ out' = ScoreError(command)
    /\ record_calls' = record_calls + 1
    /\ UNCHANGED <<reloads, gen>>

NextFault ==
    \/ WalkVerb
    \/ WalkGo
    \/ WalkBadGo
    \/ WalkAnswer
    \/ GoScoreFails

SpecFault == Init /\ [][NextFault]_vars

(***************************************************************************)
(* A game played on a maze from build_square_maze: the maze is built, the  *)
(* session is created at the start cell and the engine is constructed on   *)
(* it; the player then sends go commands and answers.  A player heading    *)
(* for the exit answers the pending puzzle or goes one step along the open *)
(* path to the exit.                                                       *)
(***************************************************************************)
PlayMoves == 3
PlaySeeds == {7}
PlayGateCounts == {0, 1, 2}

InitPlay ==
    /\ engine = Null
    /\ repo = Null
    /\ out = Null
    /\ record_calls = 0
    /\ reloads = 0
    /\ \E size \in Sizes, seed \in PlaySeeds, num_gates \in PlayGateCounts :
          gen = square_start(size, seed, num_gates)

\* The mazes with one gate at most.
InitHeading ==
    /\ InitPlay
    /\ gen.num_gates <= 1

\* The session is created and the engine constructed on the maze built.
StartGame ==
    /\ gen.phase = "done"
    /\ engine = Null
    /\ LET m == gen.maze
           initial_state == [pos |-> m.start, move_count |-> 0,
                             solved_gates |-> <<>>, started_at |-> StartedAt]
           joined == get_or_create_player(open_repo, Handle)
           created == create_game(joined.r, joined.player.id, m.maze_id,
                                  m.maze_version, initial_state)
           r == created.r
           e == GameEngine(m, r, joined.player.id, created.game.id)
       IN /\ repo' = r
          /\ engine' = e
          /\ out' = Output("construct", NoCommand, GameOutput(e, r, <<>>, FALSE))
    /\ UNCHANGED <<record_calls, reloads, gen>>

\* The answers a player types: the right one and a wrong one.
PlayAnswers == {Cmd(Answer, <<Solve>>), Cmd(Answer, << <<"n","o">> >>)}

PlayGo ==
    /\ engine # Null
    /\ engine.move_count < PlayMoves
    /\ \E d \in Directions : Apply(Cmd(Go, <<ShortForm(d)>>))

PlayAnswer ==
    /\ engine # Null
    /\ \E command \in PlayAnswers : Apply(command)

\* The number of steps of the shortest walk from a position to each position
\* a walk can reach.
RECURSIVE distances(_, _, _, _)
distances(m, dist, frontier, n) ==
    IF frontier = {} THEN dist
    ELSE LET nxt == UNION {{next_pos(m, pos, d) : d \in available_moves(m, pos)} :
                              pos \in frontier} \ DOMAIN dist
         IN distances(m, dist @@ [pos \in nxt |-> n + 1], nxt, n + 1)

Distances(m, from) == distances(m, from :> 0, {from}, 0)

\* The directions of the open path from pos to the exit: the moves that
\* lead to a cell nearer to the exit.
TowardExit(m, pos) ==
    LET steps == Distances(m, m.exit)
    IN {d \in available_moves(m, pos) : steps[next_pos(m, pos, d)] < steps[pos]}

\* What the player heading for the exit sends next.
StrategyCommands(e) ==
    IF e.pending_gate_id # None THEN {Cmd(Answer, <<Solve>>)}
    ELSE {Cmd(Go, <<ShortForm(d)>>) : d \in TowardExit(maze_of(e), e.pos)}

StrategyStep ==
    /\ engine # Null
    /\ get_game(repo, engine.game_id).status = "in_progress"
    /\ \E command \in StrategyCommands(engine) : Apply(command)

NextPlay ==
    \/ Carve
    \/ Backtrack
    \/ FindPath
    \/ PlaceGates
    \/ StartGame
    \/ PlayGo
    \/ PlayAnswer
    \/ StrategyStep

SpecPlay == InitPlay /\ [][NextPlay]_vars

\* The player heading for the exit has a command to send.
StrategyReady ==
    /\ engine # Null
    /\ get_game(repo, engine.game_id).status = "in_progress"
    /\ StrategyCommands(engine) # {}

\* The player heading for the exit keeps sending the next command: weak
\* fairness of StrategyStep, which can be taken exactly when StrategyReady
\* holds (each command of the player changes the engine).
SpecPlayFair ==
    /\ InitHeading /\ [][NextPlay]_vars
    /\ ([]<>(~StrategyReady) \/ []<><<StrategyStep>>_vars)

(***************************************************************************)
(* Vocabulary of the properties                                            *)
(***************************************************************************)
\* The direction a command asks to move in, None when it asks for none.
CommandDirection(command) ==
    IF normal_verb(command) \in MoveVerbs
    THEN direction_from_token(normal_verb(command))
    ELSE IF normal_verb(command) = Go
    THEN direction_from_token(IF command.args # <<>> THEN command.args[1] ELSE NoToken)
    ELSE None

\* The answer text of a command, as the puzzle sees it.
AnswerText(command) == strip(join(command.args))

TheMaze == maze_of(engine)

SavedCompleted == [op |-> "save_game", status |-> "completed"]
SavedInProgress == [op |-> "save_game", status |-> "in_progress"]
ScoreWritten == [op |-> "record_score", status |-> None]

\* The step is a handle call (out' is what it returned).
Handled == out'.op = "handle"

EngineUnchanged ==
    /\ engine'.pos = engine.pos
    /\ engine'.move_count = engine.move_count
    /\ engine'.solved_gates = engine.solved_gates
    /\ engine'.pending_gate_id = engine.pending_gate_id
    /\ engine'.is_complete = engine.is_complete

NothingPersisted ==
    /\ repo'.log = <<>>
    /\ repo'.games = repo.games
    /\ repo'.scores = repo.scores

(***************************************************************************)
(* C1: within one GameEngine instance, whatever commands it handles        *)
(* (moves that leave the exit and enter it again, saves after completion   *)
(* included), record_score is called at most once.                         *)
(***************************************************************************)
C1_RecordScoreAtMostOncePerEngine == record_calls <= 1

\* The first engine has recorded the score and now enters the exit again:
\* the completing move saves and does not record.
C1_Witness ==
    /\ reloads = 0
    /\ record_calls = 1
    /\ out.op = "handle"
    /\ CommandDirection(out.command) # None
    /\ engine.pos = TheMaze.exit
    /\ repo.log = <<SavedCompleted>>

(***************************************************************************)
(* C2: with the engine discarded and constructed again from the persisted  *)
(* session between commands, at most one ScoreRecord is ever created for   *)
(* the game.                                                               *)
(***************************************************************************)
C2_AtMostOneScoreRecord ==
    Cardinality({i \in DOMAIN repo.scores : repo.scores[i].game_id = engine.game_id}) <= 1

(***************************************************************************)
(* C3: when a go command moves the player onto the exit, then on return    *)
(* the view is complete, the session is persisted as completed and a       *)
(* ScoreRecord of the game exists (exactly one if there was none before).  *)
(***************************************************************************)
C3_ExitCompletesPersistsAndScores ==
    [][(/\ Handled
        /\ engine'.pos # engine.pos
        /\ engine'.pos = TheMaze.exit)
       => (/\ out'.view.is_complete
           /\ out'.did_persist
           /\ SavedCompleted \in set(repo'.log)
           /\ get_game(repo', GameId).status = "completed"
           /\ get_game(repo', GameId).state.pos = TheMaze.exit
           /\ get_game(repo', GameId).state.move_count = engine'.move_count
           /\ \E i \in DOMAIN repo'.scores : repo'.scores[i].game_id = engine.game_id
           /\ (repo.scores = <<>> => Len(repo'.scores) = 1))]_vars

\* The first arrival at the exit: saved as completed, then scored.
C3_Witness ==
    /\ out.op = "handle"
    /\ engine.pos = TheMaze.exit
    /\ out.view.is_complete
    /\ repo.log = <<SavedCompleted, ScoreWritten>>
    /\ Len(repo.scores) = 1

(***************************************************************************)
(* C4: gate safety.  The position changes from p to p + d only if the edge *)
(* (p, d) carries no gate or its gate is already solved.                   *)
(***************************************************************************)
C4_GateSafety ==
    [][engine'.pos # engine.pos
       => /\ \E d \in Directions : engine'.pos = shift(engine.pos, d)
          /\ \A d \in Directions :
                engine'.pos = shift(engine.pos, d)
                => \/ gate_id_for(TheMaze, engine.pos, d) = None
                   \/ gate_id_for(TheMaze, engine.pos, d) \in engine.solved_gates]_vars

\* The player has just stepped through a gated edge, its gate solved.
C4_Witness ==
    /\ out.op = "handle"
    /\ out.did_persist
    /\ \E d \in Directions :
          /\ CommandDirection(out.command) = d
          /\ in_bounds(TheMaze, shift(engine.pos, opposite(d)))
          /\ gate_id_for(TheMaze, shift(engine.pos, opposite(d)), d) \in engine.solved_gates

(***************************************************************************)
(* C5: a go in direction d with no puzzle pending, where the edge carries  *)
(* an unsolved gate, leaves position, move count and solved gates alone    *)
(* and makes that gate the pending puzzle, which the view shows.           *)
(***************************************************************************)
C5_UnsolvedGateSetsPending ==
    [][\A d \in Directions :
        (/\ Handled
         /\ CommandDirection(out'.command) = d
         /\ engine.pending_gate_id = None
         /\ gate_id_for(TheMaze, engine.pos, d) # None
         /\ gate_id_for(TheMaze, engine.pos, d) \notin engine.solved_gates)
        => (/\ engine'.pos = engine.pos
            /\ engine'.move_count = engine.move_count
            /\ engine'.solved_gates = engine.solved_gates
            /\ engine'.pending_gate_id = gate_id_for(TheMaze, engine.pos, d)
            /\ out'.view.pending_puzzle # Null
            /\ out'.view.pos = engine.pos
            /\ out'.view.move_count = engine.move_count)]_vars

C5_Witness ==
    /\ out.op = "handle"
    /\ CommandDirection(out.command) # None
    /\ out.messages = <<"Puzzle required.">>
    /\ engine.pending_gate_id # None
    /\ engine.pending_gate_id \notin engine.solved_gates
    /\ out.view.pending_puzzle # Null

(***************************************************************************)
(* C6: with gate g pending, an answer that passes the puzzle's check adds  *)
(* g to the solved gates, clears the pending puzzle and persists the       *)
(* session as in_progress, position and move count unchanged; the go       *)
(* through the edge of a solved gate then moves the player along it and    *)
(* adds one to the move count.                                             *)
(***************************************************************************)
C6_CorrectAnswerOpensGate ==
    [][/\ (/\ Handled
           /\ normal_verb(out'.command) = Answer
           /\ engine.pending_gate_id # None
           /\ AnswerText(out'.command) = Solve)
          => (/\ engine'.solved_gates = engine.solved_gates \cup {engine.pending_gate_id}
              /\ engine'.pending_gate_id = None
              /\ out'.view.pending_puzzle = Null
              /\ out'.did_persist
              /\ repo'.log = <<SavedInProgress>>
              /\ get_game(repo', GameId).status = "in_progress"
              /\ engine.pending_gate_id \in set(get_game(repo', GameId).state.solved_gates)
              /\ engine'.pos = engine.pos
              /\ engine'.move_count = engine.move_count)
       /\ \A d \in Directions :
            (/\ Handled
             /\ CommandDirection(out'.command) = d
             /\ engine.pending_gate_id = None
             /\ gate_id_for(TheMaze, engine.pos, d) # None
             /\ gate_id_for(TheMaze, engine.pos, d) \in engine.solved_gates)
            => (/\ engine'.pos = shift(engine.pos, d)
                /\ engine'.move_count = engine.move_count + 1)]_vars

\* Gate triggered, answered, and the go repeated: the first move of the game
\* went through the gated edge.
C6_Witness ==
    /\ out.op = "handle"
    /\ engine.move_count = 1
    /\ engine.solved_gates # {}
    /\ \E d \in Directions :
          /\ CommandDirection(out.command) = d
          /\ engine.pos = shift(TheMaze.start, d)
          /\ gate_id_for(TheMaze, TheMaze.start, d) \in engine.solved_gates

(***************************************************************************)
(* C7: with a puzzle pending, an answer that fails the puzzle's check      *)
(* leaves the same puzzle pending, changes neither position, move count    *)
(* nor solved gates, writes nothing and returns did_persist = false.       *)
(***************************************************************************)
C7_WrongAnswerChangesNothing ==
    [][(/\ Handled
        /\ normal_verb(out'.command) = Answer
        /\ engine.pending_gate_id # None
        /\ AnswerText(out'.command) # Solve)
       => (/\ EngineUnchanged
           /\ out'.view.pending_puzzle # Null
           /\ out'.view.pending_puzzle.puzzle_id = engine.pending_gate_id
           /\ NothingPersisted
           /\ out'.did_persist = FALSE)]_vars

C7_Witness ==
    /\ out.op = "handle"
    /\ normal_verb(out.command) = Answer
    /\ AnswerText(out.command) # Solve
    /\ out.messages = <<"Incorrect answer.">>
    /\ engine.pending_gate_id # None

(***************************************************************************)
(* C8: every command either leaves position and move count as they were,   *)
(* or moves to next_pos(old position, d) for some direction d and adds     *)
(* exactly one to the move count; a blocked move changes neither.          *)
(***************************************************************************)
C8_MoveOrNothing ==
    [][Handled
       => /\ \/ /\ engine'.pos = engine.pos
                /\ engine'.move_count = engine.move_count
             \/ /\ \E d \in Directions :
                      /\ next_pos(TheMaze, engine.pos, d) # Null
                      /\ engine'.pos = next_pos(TheMaze, engine.pos, d)
                /\ engine'.move_count = engine.move_count + 1
          /\ \A d \in Directions :
                (CommandDirection(out'.command) = d
                 /\ next_pos(TheMaze, engine.pos, d) = Null)
                => /\ engine'.pos = engine.pos
                   /\ engine'.move_count = engine.move_count]_vars

\* A move into a wall has just been refused, after at least one real move.
C8_Witness ==
    /\ out.op = "handle"
    /\ out.messages = <<"Blocked path.">>
    /\ engine.move_count > 0
    /\ \E d \in Directions :
          /\ CommandDirection(out.command) = d
          /\ next_pos(TheMaze, engine.pos, d) = Null

(***************************************************************************)
(* C9: a command whose verb is none of the recognised verbs leaves         *)
(* position, move count, solved gates, pending puzzle and completion flag  *)
(* unchanged, returns a non-empty message list, writes nothing and         *)
(* returns did_persist = false.                                            *)
(***************************************************************************)
RecognisedVerbs ==
    {Look, Map, Save, Answer, Go, <<"s","t","a","t","u","s">>, <<"h","i","n","t">>}
        \cup MoveVerbs

C9_UnknownVerbChangesNothing ==
    [][(Handled /\ normal_verb(out'.command) \notin RecognisedVerbs)
       => (/\ EngineUnchanged
           /\ out'.messages # <<>>
           /\ NothingPersisted
           /\ out'.did_persist = FALSE)]_vars

\* An unknown verb arrives while a puzzle is pending, after a move.
C9_Witness ==
    /\ out.op = "handle"
    /\ normal_verb(out.command) \notin RecognisedVerbs
    /\ out.messages = <<"Unknown command.">>
    /\ engine.pending_gate_id # None
    /\ engine.move_count > 0

(***************************************************************************)
(* C10: completed is terminal.  Once the persisted status is completed, no *)
(* later command has the session persisted as in_progress.                 *)
(***************************************************************************)
C10_CompletedIsTerminal ==
    [][get_game(repo, GameId).status = "completed"
       => /\ SavedInProgress \notin set(repo'.log)
          /\ get_game(repo', GameId).status = "completed"]_vars

\* C11: while a puzzle is pending, every command that names a direction
\* (n, s, e, w or go with a valid direction) is rejected: position, move
\* count, solved gates, completion flag and pending gate stay as they were
\* and nothing is written.  While the engine lives, a pending gate is only
\* ever cleared, and only by an answer command carrying the correct answer.
C11_PendingRejectsMoves ==
    [][(Handled /\ engine.pending_gate_id # None) =>
          /\ CommandDirection(out'.command) # None =>
                /\ EngineUnchanged
                /\ NothingPersisted
                /\ ~out'.did_persist
          /\ engine'.pending_gate_id # engine.pending_gate_id =>
                /\ engine'.pending_gate_id = None
                /\ normal_verb(out'.command) = Answer
                /\ AnswerText(out'.command) = Solve]_vars

C11_Witness ==
    /\ out.op = "handle"
    /\ engine.pending_gate_id # None
    /\ out.messages = <<"Solve the pending puzzle first.">>
    /\ \E d \in Directions :
          /\ CommandDirection(out.command) = d
          /\ gate_id_for(TheMaze, engine.pos, d) = None
          /\ next_pos(TheMaze, engine.pos, d) # Null

\* A handle step wrote the session row.
GameSaved == \E i \in DOMAIN repo'.log : repo'.log[i].op = "save_game"

\* C12: every direction command that moves the player or triggers a gate
\* (sets the pending gate) saves the session and returns did_persist = TRUE.
C12_MoveOrTriggerPersists ==
    [][(/\ Handled
        /\ CommandDirection(out'.command) # None
        /\ \/ engine'.pos # engine.pos
           \/ engine.pending_gate_id = None /\ engine'.pending_gate_id # None)
       => (out'.did_persist /\ GameSaved)]_vars

\* C13: the ScoreRecord written on completion carries the metrics
\* elapsed_seconds, moves and hints_used: moves is the move count at the
\* moment the exit is entered (at least 1), elapsed_seconds is not negative
\* and hints_used is the count of the hints taken.
C13_ScoreMetrics ==
    [][(Handled /\ RecordScoreCalls(repo'.log) > 0) =>
          LET metrics == score_dict(repo'.scores[Len(repo'.scores)]).metrics
          IN /\ {"elapsed_seconds", "moves", "hints_used"} \subseteq DOMAIN metrics
             /\ metrics.moves = engine'.move_count
             /\ metrics.moves >= 1
             /\ metrics.elapsed_seconds >= 0
             /\ metrics.hints_used \in Nat]_vars

Hint == <<"h","i","n","t">>

\* C14: a hint command given while a puzzle is pending returns a message,
\* counts one more hint and saves the session, whose saved state then
\* carries hints_used >= 1; a hint command given with no puzzle pending
\* returns a message and leaves position and move count as they were.
C14_HintCommand ==
    [][(Handled /\ normal_verb(out'.command) = Hint) =>
          IF engine.pending_gate_id # None
          THEN /\ out'.messages # <<>>
               /\ GameSaved
               /\ "hints_used" \in DOMAIN get_game(repo', GameId).state
               /\ get_game(repo', GameId).state.hints_used >= 1
          ELSE /\ out'.messages # <<>>
               /\ engine'.pos = engine.pos
               /\ engine'.move_count = engine.move_count]_vars

LegacyAbsentKeys == {"hints_used", "maze_size", "num_gates", "maze_seed", "visited"}

\* C15: an engine constructed on a session whose saved state has none of
\* hints_used, maze_size, num_gates, maze_seed and visited takes them as 0,
\* the maze width, 1, 0 and the list of the loaded position; the save
\* command that follows writes a state with all five keys at those values.
C15_LegacyDefaultsSaved ==
    [][(/\ Handled
        /\ normal_verb(out'.command) = Save
        /\ out.op = "construct"
        /\ LegacyAbsentKeys \cap DOMAIN get_game(repo, GameId).state = {})
       => /\ LegacyAbsentKeys \subseteq DOMAIN get_game(repo', GameId).state
          /\ get_game(repo', GameId).state.hints_used = 0
          /\ get_game(repo', GameId).state.maze_size = TheMaze.width
          /\ get_game(repo', GameId).state.num_gates = 1
          /\ get_game(repo', GameId).state.maze_seed = 0
          /\ get_game(repo', GameId).state.visited = <<engine.pos>>]_vars

\* C16: the save command makes exactly one save_game write, whose state
\* carries the engine's position, move count and solved gates and whose
\* status is completed when the game is complete and in_progress otherwise;
\* it returns did_persist = TRUE, writes no score and leaves position, move
\* count, solved gates and pending puzzle as they were.
C16_SaveCommand ==
    [][(Handled /\ normal_verb(out'.command) = Save) =>
          LET status == IF engine.is_complete THEN "completed" ELSE "in_progress"
          IN /\ repo'.log = <<[op |-> "save_game", status |-> status]>>
             /\ get_game(repo', GameId).status = status
             /\ get_game(repo', GameId).state.pos = engine.pos
             /\ get_game(repo', GameId).state.move_count = engine.move_count
             /\ set(get_game(repo', GameId).state.solved_gates) = engine.solved_gates
             /\ repo'.scores = repo.scores
             /\ out'.did_persist
             /\ EngineUnchanged]_vars

C16_Witness ==
    /\ out.op = "handle"
    /\ normal_verb(out.command) = Save
    /\ repo.log = <<SavedCompleted>>
    /\ engine.is_complete
    /\ engine.solved_gates # {}
    /\ get_game(repo, GameId).state.solved_gates # <<>>

\* C17: constructing a GameEngine for a game id the repository has no
\* session for raises KeyError and writes nothing; no engine comes of it,
\* so every engine there is belongs to the session of the repository.
C17_UnknownGameFails ==
    [][/\ \A game_id \in GameIds \ {get_game(repo, GameId).id} :
             GameEngine(TheMaze, repo, engine.player_id, game_id) = KeyError
       /\ engine'.game_id = get_game(repo', GameId).id
       /\ out'.op = "raise" =>
             /\ out'.game_id # get_game(repo, GameId).id
             /\ out'.error = "KeyError"
             /\ NothingPersisted
             /\ engine' = engine]_vars

C17_Witness ==
    /\ out.op = "raise"
    /\ out.error = "KeyError"
    /\ out.game_id # get_game(repo, GameId).id
    /\ repo.log = <<>>
    /\ get_game(repo, GameId).state.move_count > 0

\* C18: when a gate is triggered and the question bank holds an unasked
\* question, the pending puzzle shown has that question's id and not the
\* gate id; when the bank holds no unasked question, the pending puzzle is
\* the registry's and its puzzle_id is the gate id.
C18_BankQuestionFirst ==
    [][(/\ Handled
        /\ engine.pending_gate_id = None
        /\ engine'.pending_gate_id # None)
       => LET unasked == get_random_question(repo, None) \ {Null}
              puzzle_id == out'.view.pending_puzzle.puzzle_id
          IN IF unasked # {}
             THEN /\ puzzle_id \in {q.id : q \in unasked}
                  /\ puzzle_id # engine'.pending_gate_id
             ELSE puzzle_id = engine'.pending_gate_id]_vars

\* C19: the view of every command reports visited_count, the size of the
\* engine's set of visited cells: it is at least 1 (the loaded position is
\* visited), it grows by at most one with a move and it is the same before
\* and after every command that does not move the player.
C19_VisitedCount ==
    [][Handled =>
          /\ "visited_count" \in DOMAIN out'.view
          /\ out'.view.visited_count >= 1
          /\ "visited_count" \in DOMAIN out.view =>
                /\ out'.view.visited_count \in
                      {out.view.visited_count, out.view.visited_count + 1}
                /\ engine'.pos = engine.pos =>
                      out'.view.visited_count = out.view.visited_count]_vars

\* C20: in every maze returned by build_minimal_3x3_maze or
\* build_square_maze, for every position of the grid and every direction:
\* the direction is among available_moves exactly when next_pos is not
\* None, and a next_pos that is not None is in bounds and is the position
\* shifted by the direction's delta.
C20_MovesAgreeWithNextPos ==
    gen.phase = "done" =>
        \A pos \in DOMAIN gen.maze.cells, d \in Directions :
            LET nxt == next_pos(gen.maze, pos, d)
            IN /\ d \in available_moves(gen.maze, pos) <=> nxt # Null
               /\ nxt # Null =>
                     /\ in_bounds(gen.maze, nxt)
                     /\ nxt = Position(pos.row + delta(d)[1], pos.col + delta(d)[2])

C20_Witness ==
    /\ gen.phase = "done"
    /\ gen.size = 3
    /\ Len(gen.path_edges) > 4
    /\ \E pos \in DOMAIN gen.maze.cells, d \in Directions :
          /\ shift(pos, d) \in DOMAIN gen.maze.cells
          /\ next_pos(gen.maze, pos, d) = Null
    /\ \E pos \in DOMAIN gen.maze.cells, d \in Directions :
          /\ gate_id_for(gen.maze, pos, d) # None
          /\ d \in available_moves(gen.maze, pos)

\* The positions a walk from the start can reach, each step being a
\* direction of available_moves taken to its next_pos.
RECURSIVE walk(_, _, _)
walk(m, seen, frontier) ==
    IF frontier = {} THEN seen
    ELSE LET allowed == UNION {{next_pos(m, pos, d) : d \in available_moves(m, pos)} :
                                  pos \in frontier}
         IN walk(m, seen \cup allowed, allowed \ seen)

Reachable(m, from) == walk(m, {from}, {from})

\* C21: in the fixed 3x3 maze and in every maze of build_square_maze with
\* size >= 2 (any seed, any num_gates >= 0), the exit can be reached from the
\* start by steps that available_moves and next_pos allow.
C21_ExitReachable ==
    (gen.phase = "done" /\ gen.size >= 2) =>
        gen.maze.exit \in Reachable(gen.maze, gen.maze.start)

C21_Witness ==
    /\ gen.phase = "done"
    /\ gen.size = 3
    /\ gen.num_gates = 2
    /\ Len(gen.path_edges) = 8
    /\ gen.maze.exit \in Reachable(gen.maze, gen.maze.start)
    /\ gen.maze.exit # gen.maze.start

\* C22: two calls of build_square_maze with the same size, seed and
\* num_gates return mazes that agree, at every position, in the blocked
\* set, the edge gates, the puzzle id and the kind of the cell.
C22_SquareMazeDeterministic ==
    (gen.first.phase = "done" /\ gen.second.phase = "done") =>
        /\ DOMAIN gen.first.maze.cells = DOMAIN gen.second.maze.cells
        /\ \A pos \in DOMAIN gen.first.maze.cells :
              /\ gen.first.maze.cells[pos].blocked = gen.second.maze.cells[pos].blocked
              /\ gen.first.maze.cells[pos].edge_gates = gen.second.maze.cells[pos].edge_gates
              /\ gen.first.maze.cells[pos].puzzle_id = gen.second.maze.cells[pos].puzzle_id
              /\ gen.first.maze.cells[pos].kind = gen.second.maze.cells[pos].kind

C22_Witness ==
    /\ gen.first.phase = "done"
    /\ gen.second.phase = "done"
    /\ gen.first.size = 3
    /\ gen.first.num_gates = 2
    /\ Len(gen.tape) = 9
    /\ gen.draws = [first |-> 9, second |-> 9]
    /\ \E pos \in DOMAIN gen.second.maze.cells :
          gen.second.maze.cells[pos].puzzle_id = gate_dynamic(gen.second.seed, 1)

\* The cells of the shortest open path from the start to the exit.
OnPath(m) ==
    LET ds == Distances(m, m.start)
        de == Distances(m, m.exit)
    IN {pos \in DOMAIN m.cells :
          /\ pos \in DOMAIN ds
          /\ pos \in DOMAIN de
          /\ ds[pos] + de[pos] = ds[m.exit]}

\* The gated edges of a maze.
Gates(m) ==
    {e \in [pos : DOMAIN m.cells, d : Directions] : gate_id_for(m, e.pos, e.d) # None}

\* C23: build_square_maze(size, seed, num_gates) places exactly
\* min(num_gates, L) gates, L being the number of edges of the shortest open
\* path from start to exit: the gate ids are pairwise distinct, each gate is
\* on an edge of that path (taken towards the exit), the cell the edge leads
\* to has the gate's id as its puzzle_id, cells off the path have no gate and
\* no puzzle, and the placement can be made also when num_gates > L.
C23_GatesOnThePath ==
    /\ (gen.builder = "square" /\ gen.phase = "gates") =>
          sample(gen.path_edges, min(gen.num_gates, Len(gen.path_edges))) # {}
    /\ (gen.builder = "square" /\ gen.phase = "done") =>
          LET m == gen.maze
              ds == Distances(m, m.start)
              L == ds[m.exit]
              path == OnPath(m)
              gates == Gates(m)
          IN /\ Cardinality(gates) = min(gen.num_gates, L)
             /\ Cardinality({gate_id_for(m, e.pos, e.d) : e \in gates})
                   = Cardinality(gates)
             /\ \A e \in gates :
                   /\ e.pos \in path
                   /\ next_pos(m, e.pos, e.d) \in path
                   /\ ds[next_pos(m, e.pos, e.d)] = ds[e.pos] + 1
                   /\ puzzle_id_at(m, next_pos(m, e.pos, e.d))
                         = gate_id_for(m, e.pos, e.d)
             /\ \A pos \in DOMAIN m.cells :
                   /\ puzzle_id_at(m, pos) # None =>
                         \E e \in gates :
                            /\ next_pos(m, e.pos, e.d) = pos
                            /\ gate_id_for(m, e.pos, e.d) = puzzle_id_at(m, pos)
                   /\ pos \notin path =>
                         /\ puzzle_id_at(m, pos) = None
                         /\ \A d \in Directions : gate_id_for(m, pos, d) = None

C23_Witness ==
    /\ gen.builder = "square"
    /\ gen.phase = "done"
    /\ gen.size = 2
    /\ gen.num_gates = 3
    /\ Cardinality(Gates(gen.maze)) = 2
    /\ \E pos \in DOMAIN gen.maze.cells :
          pos \notin OnPath(gen.maze)

\* The open edges of a maze: the adjacent pairs blocked on neither side,
\* each named by its cell and the direction S or E out of it.
OpenPairs(m) ==
    {e \in [pos : DOMAIN m.cells, d : {"S", "E"}] :
        /\ shift(e.pos, e.d) \in DOMAIN m.cells
        /\ e.d \notin cell(m, e.pos).blocked
        /\ opposite(e.d) \notin cell(m, shift(e.pos, e.d)).blocked}

\* The maze with a wall put on an edge.
Walled(m, e) == [m EXCEPT !.cells = add_wall(@, e.pos, e.d)]

\* C24: the open edges of every maze build_square_maze returns form a
\* spanning tree of the grid: every cell is reachable from (0,0), there are
\* exactly size*size - 1 open adjacent pairs, and there is no cycle (closing
\* any open edge cuts its two cells apart).
C24_SpanningTree ==
    (gen.builder = "square" /\ gen.phase = "done") =>
        LET m == gen.maze
            pairs == OpenPairs(m)
        IN /\ Reachable(m, Position(0, 0)) = DOMAIN m.cells
           /\ Cardinality(DOMAIN m.cells) = gen.size * gen.size
           /\ Cardinality(pairs) = gen.size * gen.size - 1
           /\ \A e \in pairs :
                 shift(e.pos, e.d) \notin Reachable(Walled(m, e), e.pos)

C24_Witness ==
    /\ gen.builder = "square"
    /\ gen.phase = "done"
    /\ gen.size = 3
    /\ Cardinality(OpenPairs(gen.maze)) = 8
    /\ \E pos \in DOMAIN gen.maze.cells :
          Cardinality(available_moves(gen.maze, pos)) = 3

\* C25: in every maze the builders return, walls are symmetric: for a
\* position p and a direction d whose neighbour q is in the grid, d is
\* blocked at p exactly when the opposite direction is blocked at q; and in
\* a maze of build_square_maze every direction that leads out of the grid is
\* blocked.
C25_WallsSymmetric ==
    gen.phase = "done" =>
        \A pos \in DOMAIN gen.maze.cells, d \in Directions :
            LET q == Position(pos.row + delta(d)[1], pos.col + delta(d)[2])
            IN IF in_bounds(gen.maze, q)
               THEN d \in cell(gen.maze, pos).blocked
                       <=> opposite(d) \in cell(gen.maze, q).blocked
               ELSE gen.builder = "square" => d \in cell(gen.maze, pos).blocked

C25_Witness ==
    /\ gen.phase = "done"
    /\ gen.builder = "minimal"
    /\ "S" \in cell(gen.maze, Position(0, 1)).blocked
    /\ "N" \in cell(gen.maze, Position(1, 1)).blocked
    /\ "N" \notin cell(gen.maze, Position(0, 1)).blocked

\* The id the players table holds for a handle, None when it holds no row
\* of the handle.
PlayerIdOf(r, name) ==
    LET found == {i \in DOMAIN r.players : r.players[i].handle = name}
    IN IF found = {} THEN None ELSE r.players[CHOOSE i \in found : TRUE].id

\* C26: get_or_create_player is idempotent by handle.  Through every
\* sequence of calls the players table holds at most one row per handle and
\* the id of a handle, once given, stays; a call returns the player of the
\* handle asked for, with the id the table holds for that handle: so every
\* call with the same handle returns the same id.
C26_PlayerPerHandle ==
    [][/\ \A i, j \in DOMAIN repo'.players :
             repo'.players[i].handle = repo'.players[j].handle => i = j
       /\ \A name \in Handles :
             PlayerIdOf(repo, name) # None
                => PlayerIdOf(repo', name) = PlayerIdOf(repo, name)
       /\ out'.op = "get_or_create_player"
             => /\ out'.player.handle = out'.handle
                /\ out'.player.id = PlayerIdOf(repo', out'.handle)]_vars

\* A call for a handle that already had its row, in a table of two players:
\* it returned the first row and created none.
C26_Witness ==
    /\ out.op = "get_or_create_player"
    /\ Len(repo.players) = 2
    /\ out.player = repo.players[1]
    /\ repo.players[2].handle # out.handle

\* C30: save_game for a game id that has no session raises the unknown-game
\* error (KeyError) and leaves the sessions as they were, none created and
\* none modified; get_game for such an id returns None; create_game makes a
\* new session whose status is in_progress and whose state, read back with
\* get_game, equals the initial state it was given.
C30_UnknownGameAndCreate ==
    [][/\ (out'.op = "save_game" /\ out'.game_id \notin DOMAIN repo.games)
             => /\ out'.error = KeyError.raised
                /\ repo'.games = repo.games
       /\ (out'.op = "get_game" /\ out'.game_id \notin DOMAIN repo.games)
             => out'.game = Null
       /\ out'.op = "create_game"
             => LET game == get_game(repo', out'.game.id)
                IN /\ out'.game.id \notin DOMAIN repo.games
                   /\ out'.game.status = "in_progress"
                   /\ game # Null
                   /\ game.status = "in_progress"
                   /\ game.state = out'.initial_state]_vars

\* A save_game call for an id without a session, made while another session
\* exists whose stored state is not the state the call carried.
C30_Witness ==
    /\ out.op = "save_game"
    /\ out.game_id \notin DOMAIN repo.games
    /\ out.error = KeyError.raised
    /\ \E game_id \in DOMAIN repo.games : get_game(repo, game_id).state.move_count = 3

\* The recorded scores a top_scores call for maze_id is about.
Matching(r, maze_id) ==
    {score_dict(r.scores[i]) :
        i \in {j \in DOMAIN r.scores : maze_id = None \/ r.scores[j].maze_id = maze_id}}

\* A metric as a rank: the finite ones by their value, a missing one above
\* them all.
Rank(item, key) ==
    IF key \in DOMAIN item.metrics THEN <<0, item.metrics[key]>> ELSE <<1, 0>>

RankLess(a, b) == a[1] < b[1] \/ (a[1] = b[1] /\ a[2] < b[2])

\* a is not after b in the order by (elapsed_seconds, moves).
NotAfter(a, b) ==
    \/ RankLess(Rank(a, "elapsed_seconds"), Rank(b, "elapsed_seconds"))
    \/ /\ Rank(a, "elapsed_seconds") = Rank(b, "elapsed_seconds")
       /\ ~RankLess(Rank(b, "moves"), Rank(a, "moves"))

\* C27: top_scores(maze_id, limit) returns scores recorded for maze_id only
\* (any score when maze_id is None), each once, in ascending order of
\* (elapsed_seconds, moves) with a missing metric as +infinity; it returns
\* min(limit, number of matching scores) of them, and no score left out
\* comes before one returned.
C27_TopScores ==
    out.op = "top_scores"
       => LET items == out.items
              matching == Matching(repo, out.maze_id)
              returned == {items[i] : i \in DOMAIN items}
          IN /\ returned \subseteq matching
             /\ \A i, j \in DOMAIN items : i < j =>
                   /\ items[i].id # items[j].id
                   /\ NotAfter(items[i], items[j])
             /\ Len(items) = min(out.limit, Cardinality(matching))
             /\ \A s \in matching \ returned : \A i \in DOMAIN items :
                   NotAfter(items[i], s)

\* A call that had to filter, to reorder and to cut: a score of another maze
\* is stored, a matching score lacks a metric, more scores match than the
\* limit lets through, and the first one returned was not stored first.
C27_Witness ==
    /\ out.op = "top_scores"
    /\ out.maze_id # None
    /\ out.limit > 0
    /\ Cardinality(Matching(repo, out.maze_id)) > out.limit
    /\ \E i \in DOMAIN repo.scores : repo.scores[i].maze_id # out.maze_id
    /\ \E s \in Matching(repo, out.maze_id) : "moves" \notin DOMAIN s.metrics
    /\ \E i \in DOMAIN repo.scores :
          /\ repo.scores[i].id = out.items[1].id
          /\ \E j \in 1..(i - 1) : repo.scores[j].maze_id = out.maze_id

\* The bank rows a draw for the category may take: not yet asked and, when a
\* category is given, of that category.
Eligible(r, category) ==
    {x \in r.questions :
        ~x.has_been_asked /\ (category = None \/ x.category = category)}

\* C28: through every sequence of seed_questions, mark_question_asked,
\* reset_questions and get_random_question calls, get_random_question
\* returns None exactly when the bank has no unasked question (of the
\* category, when one is given), and otherwise the content of an unasked row
\* of that category, never a row whose asked flag is set; after
\* reset_questions every row of the bank can be drawn again, with a category
\* and without.
C28_DrawsUnaskedOnly ==
    /\ out.op = "get_random_question"
          => /\ out.question = Null <=> Eligible(repo, out.category) = {}
             /\ out.question # Null
                   => /\ \E x \in Eligible(repo, out.category) :
                            /\ x.id = out.question.id
                            /\ x.question_text = out.question.question_text
                            /\ x.correct_answer = out.question.correct_answer
                            /\ x.category = out.question.category
                      /\ \A x \in repo.questions :
                            x.id = out.question.id => ~x.has_been_asked
    /\ out.op = "reset_questions"
          => \A x \in repo.questions :
                /\ x \in Eligible(repo, None)
                /\ \E q \in get_random_question(repo, x.category) :
                      q # Null /\ q.id = x.id
                /\ \E q \in get_random_question(repo, None) :
                      q # Null /\ q.id = x.id

\* A draw with a category that returned a question while another question of
\* that category was marked asked.
C28_Witness ==
    /\ out.op = "get_random_question"
    /\ out.category # None
    /\ out.question # Null
    /\ \E x \in repo.questions : x.has_been_asked /\ x.category = out.category

\* C29: seed_questions is an idempotent upsert by id.  A seeding leaves one
\* row per id, the rows of the list's ids carrying the list's content with
\* the asked flag cleared; seeding the same list once more leaves the bank
\* exactly as the first seeding left it: the same ids, one row each, the
\* same content.
C29_SeedIdempotent ==
    [][out'.op = "seed_questions"
          => LET questions == out'.questions
             IN /\ \A x, y \in repo'.questions : x.id = y.id => x = y
                /\ \A i \in DOMAIN questions :
                      \E x \in repo'.questions :
                         /\ x.id = questions[i].id
                         /\ x.question_text = questions[i].question_text
                         /\ x.correct_answer = questions[i].correct_answer
                         /\ ~x.has_been_asked
                /\ {x.id : x \in repo'.questions}
                      = {x.id : x \in repo.questions}
                           \cup {questions[i].id : i \in DOMAIN questions}
                /\ out'.again => repo'.questions = repo.questions]_vars

\* The second of two seedings of the same three-question list in a row, on
\* a bank that holds a fourth question.
C29_Witness ==
    /\ out.op = "seed_questions"
    /\ out.again
    /\ Len(out.questions) = 3
    /\ Cardinality(repo.questions) = 4

\* The maze with every gate and every puzzle marker taken off its cells.
Ungated(m) ==
    [m EXCEPT !.cells = [pos \in DOMAIN @ |->
                            [@[pos] EXCEPT !.puzzle_id = None,
                                           !.edge_gates = [d \in Directions |-> None]]]]

\* C31: gating does not change adjacency.  In every maze the builders
\* return, for every edge (p, d) that carries a gate, next_pos(p, d) and
\* available_moves(p) are what they are in the same maze with every gate and
\* puzzle marker removed.
C31_GatesLeaveAdjacency ==
    gen.phase = "done" =>
        LET m == gen.maze
            u == Ungated(m)
        IN \A e \in Gates(m) :
              /\ next_pos(m, e.pos, e.d) = next_pos(u, e.pos, e.d)
              /\ available_moves(m, e.pos) = available_moves(u, e.pos)

\* A generated maze with a gate on an open edge: the gated direction is
\* among the available moves of its cell.
C31_Witness ==
    /\ gen.builder = "square"
    /\ gen.phase = "done"
    /\ \E e \in Gates(gen.maze) :
          /\ next_pos(gen.maze, e.pos, e.d) = shift(e.pos, e.d)
          /\ e.d \in available_moves(gen.maze, e.pos)
          /\ Cardinality(available_moves(gen.maze, e.pos)) >= 2

\* C32: gates are directional.  In every maze of build_square_maze, when
\* gate_id_for(p, d) is a gate, the same edge taken from its destination,
\* gate_id_for(p + d, d.opposite), carries none.
C32_GatesNotMirrored ==
    (gen.builder = "square" /\ gen.phase = "done") =>
        \A e \in Gates(gen.maze) :
            gate_id_for(gen.maze, shift(e.pos, e.d), opposite(e.d)) = None

\* A generated maze with two gates, one of which leads into a cell from
\* which the step back is open and ungated.
C32_Witness ==
    /\ gen.builder = "square"
    /\ gen.phase = "done"
    /\ Cardinality(Gates(gen.maze)) = 2
    /\ \E e \in Gates(gen.maze) :
          /\ next_pos(gen.maze, shift(e.pos, e.d), opposite(e.d)) = e.pos
          /\ gate_id_for(gen.maze, shift(e.pos, e.d), opposite(e.d)) = None

\* The cells of the grid a build_square_maze call works on.
GridCells(b) == {Position(r, c) : r \in 0..(b.size - 1), c \in 0..(b.size - 1)}

\* What holds of the stack at every point of the carving loop and after it.
StackInvariant ==
    gen.builder = "square" =>
        /\ \A i, j \in DOMAIN gen.stack : gen.stack[i] = gen.stack[j] => i = j
        /\ \A i \in DOMAIN gen.stack : gen.stack[i] \in gen.visited
        /\ gen.visited \subseteq GridCells(gen)
        /\ gen.phase # "carve" => gen.stack = <<>> /\ gen.visited = GridCells(gen)

\* One step of a call in its carving loop: a push of a cell never pushed
\* before, a pop of the top of the stack, or the end of the loop.
LoopStep ==
    (gen.builder = "square" /\ gen.phase = "carve") =>
        \/ /\ gen'.phase = "carve"
           /\ Len(gen'.stack) = Len(gen.stack) + 1
           /\ SubSeq(gen'.stack, 1, Len(gen.stack)) = gen.stack
           /\ gen'.stack[Len(gen'.stack)] \notin gen.visited
           /\ gen'.visited = gen.visited \cup {gen'.stack[Len(gen'.stack)]}
        \/ /\ gen'.phase = "carve"
           /\ gen.stack # <<>>
           /\ gen'.stack = SubSeq(gen.stack, 1, Len(gen.stack) - 1)
           /\ gen'.visited = gen.visited
           /\ Cardinality(gen.visited) < gen.size * gen.size
                 => gen'.stack # <<>>
        \/ /\ gen'.phase = "gates"
           /\ gen.stack = <<>>
           /\ gen.visited = GridCells(gen)

\* C34: the carving loop of build_square_maze terminates.  A cell is pushed
\* only when it has not been visited and is marked visited at its push, so
\* it is pushed once; a pop takes the top of the stack off and the cell is
\* never pushed again, so it is popped once; the loop ends with the stack
\* empty and every cell of the grid visited; and every call in the loop
\* does leave it.
C34_CarvingTerminates ==
    /\ []StackInvariant
    /\ [][LoopStep]_vars
    /\ (gen.builder = "square")
          ~> (gen.stack = <<>> /\ gen.visited = GridCells(gen))

\* The loop of a 3x3 call has ended: nine cells visited, the stack empty.
C34_Witness ==
    /\ gen.builder = "square"
    /\ gen.phase = "gates"
    /\ gen.size = 3
    /\ Cardinality(gen.visited) = 9
    /\ gen.stack = <<>>

\* What a handle call leaves and returns.
Outcome(res) ==
    [e |-> res.e, r |-> res.r, view |-> res.view, messages |-> res.messages,
     did_persist |-> res.did_persist]

\* C33: direction tokens are equivalent across forms.  From every reachable
\* engine state, every form of the request to move in direction d (the verb
\* n/s/e/w, go with the letter or the word, in any letter case, with blanks
\* around) leaves the same engine state and repository and returns the same
\* view, messages and did_persist as the verb alone; and a go whose
\* direction is missing or does not parse changes no state and persists
\* nothing.
C33_DirectionForms ==
    LET r == [repo EXCEPT !.log = <<>>]
    IN /\ \A d \in Directions :
             LET verb_alone == Outcome(handle(engine, r, Cmd(ShortForm(d), <<>>)))
             IN \A c \in CommandForms[d] : Outcome(handle(engine, r, c)) = verb_alone
       /\ \A c \in BadGoCommands :
             LET res == handle(engine, r, c)
             IN /\ res.e = engine
                /\ res.r = r
                /\ ~res.did_persist
                /\ res.messages = <<"Invalid direction.">>

\* The engine has moved on a go with the direction spelled as a word.
C33_Witness ==
    /\ out.op = "handle"
    /\ out.command = Cmd(Go, << <<"s","o","u","t","h">> >>)
    /\ out.command \in CommandForms["S"]
    /\ out.did_persist
    /\ out.messages = <<>>
    /\ engine.move_count >= 1

\* C35: did_persist is truthful.  For every command handled from every
\* reachable state, the did_persist returned is true exactly when the
\* engine called repo.save_game at least once while handling the command.
C35_DidPersistTruthful ==
    [][Handled =>
          (out'.did_persist
              <=> \E i \in DOMAIN repo'.log : repo'.log[i] \in {SavedCompleted, SavedInProgress})]_vars

\* The completing move: save_game and record_score were called, and
\* did_persist is true.
C35_Witness ==
    /\ out.op = "handle"
    /\ out.did_persist
    /\ repo.log = <<SavedCompleted, ScoreWritten>>
    /\ engine.pos = TheMaze.exit

\* C36: resume equivalence.  After every handle call returns, the position,
\* move count and solved-gates set of the persisted session state equal the
\* engine's in-memory values, and an engine constructed from the repository
\* at that point has the same position, move count and solved gates, with
\* no pending puzzle.
C36_ResumeEquivalence ==
    out.op = "handle" =>
        LET saved == get_game(repo, engine.game_id).state
            resumed == GameEngine(TheMaze, repo, engine.player_id, engine.game_id)
        IN /\ saved.pos = engine.pos
           /\ saved.move_count = engine.move_count
           /\ set(saved.solved_gates) = engine.solved_gates
           /\ resumed.pos = engine.pos
           /\ resumed.move_count = engine.move_count
           /\ resumed.solved_gates = engine.solved_gates
           /\ resumed.pending_gate_id = None

\* A handle call has just set a pending puzzle in memory, after moves that
\* were persisted: the engine holds what the repository does not.
C36_Witness ==
    /\ out.op = "handle"
    /\ out.messages = <<"Puzzle required.">>
    /\ engine.pending_gate_id # None
    /\ engine.move_count > 0

\* A pending puzzle belongs to a gate on an edge of the current cell and
\* that gate is not solved.
PendingAtPosition ==
    engine.pending_gate_id # None =>
        /\ \E d \in Directions :
              gate_id_for(TheMaze, engine.pos, d) = engine.pending_gate_id
        /\ engine.pending_gate_id \notin engine.solved_gates

\* A step keeps every solved gate, and what it adds was pending before it.
SolvedGrowsByPending ==
    /\ engine.solved_gates \subseteq engine'.solved_gates
    /\ \A g \in engine'.solved_gates \ engine.solved_gates :
          g = engine.pending_gate_id

\* C37: in every reachable engine state a pending puzzle's gate id is
\* gate_id_for(current position, d) for some direction d and is not in the
\* solved-gates set; the solved-gates set only grows, and each gate id added
\* to it was the pending one immediately before.
C37_PendingAndSolved ==
    /\ []PendingAtPosition
    /\ [][SolvedGrowsByPending]_vars

\* A correct answer has just moved the pending gate into the solved set.
C37_Witness ==
    /\ out.op = "handle"
    /\ out.messages = <<"Correct.">>
    /\ engine.solved_gates = {GatePythonBasics}
    /\ engine.pending_gate_id = None
    /\ gate_id_for(TheMaze, engine.pos, "E") = GatePythonBasics

\* The gate ids placed on the edges of a maze.
GateIds(m) == {gate_id_for(m, e.pos, e.d) : e \in Gates(m)}

\* C38: in a game on a maze from build_square_maze, begun at the start cell
\* with no gate solved, whenever the position is the exit the solved-gates
\* set contains every gate id placed in the maze.
C38_ExitNeedsAllGates ==
    (engine # Null /\ engine.pos = TheMaze.exit) =>
        GateIds(TheMaze) \subseteq engine.solved_gates

\* A game on a 3x3 maze with a gate has been completed at the exit.
C38_Witness ==
    /\ engine # Null
    /\ TheMaze.width = 3
    /\ GateIds(TheMaze) # {}
    /\ engine.pos = TheMaze.exit
    /\ engine.is_complete
    /\ engine.solved_gates = GateIds(TheMaze)

\* The session of the live engine is persisted as completed.
Completed ==
    /\ engine # Null
    /\ get_game(repo, engine.game_id).status = "completed"

\* No game has begun, or the game is completed.
NoGameOrCompleted == engine = Null \/ Completed

\* A game has begun and its session is persisted as in_progress.
InProgress ==
    /\ engine # Null
    /\ get_game(repo, engine.game_id).status = "in_progress"

\* C39 as stated, for every maze of build_square_maze: in no reachable
\* in_progress state is the player heading for the exit left without a
\* command (a correct answer to the pending puzzle, or a go along the open
\* path toward the exit).
C39_AnyGeneratedMaze ==
    InProgress => StrategyCommands(engine) # {}

\* C39: winnability.  On a maze of build_square_maze of size 2 or more, from
\* every reachable in_progress state, with or without a pending puzzle, the
\* player who answers each pending puzzle correctly and otherwise goes along
\* the open path toward the exit reaches status completed: the player always
\* has such a command, and once every step is such a step the game becomes
\* and stays completed.
C39_Winnable ==
    /\ []((gen.size >= 2 /\ InProgress) => StrategyCommands(engine) # {})
    /\ (gen.size >= 2 /\ <>[][StrategyStep]_vars) => <>[]NoGameOrCompleted

\* A game on a 3x3 maze with a gate is completed after more moves than the
\* open path from start to exit has: the player had left the path before.
C39_Witness ==
    /\ Completed
    /\ TheMaze.width = 3
    /\ engine.solved_gates # {}
    /\ engine.move_count > Distances(TheMaze, TheMaze.exit)[TheMaze.start]

\* The step is a handle call that raised in record_score.
ScoreFailed == out'.op = "raise" /\ out'.error = "record_score"

\* C40: on the completing move status completed is persisted before
\* record_score is called, and the score-recorded guard is set only after
\* record_score has returned; if record_score fails the error reaches the
\* caller, the session is persisted as completed, no ScoreRecord is written
\* and the guard stays unset.
C40_ScoreFailureLeavesCompleted ==
    [][/\ (Handled /\ ScoreWritten \in set(repo'.log))
              => repo'.log = <<SavedCompleted, ScoreWritten>>
       /\ (Handled /\ engine'.score_recorded /\ ~engine.score_recorded)
              => ScoreWritten \in set(repo'.log)
       /\ ScoreFailed
              => (/\ repo'.log = <<SavedCompleted>>
                  /\ get_game(repo', engine.game_id).status = "completed"
                  /\ get_game(repo', engine.game_id).state.pos = TheMaze.exit
                  /\ repo'.scores = repo.scores
                  /\ \A i \in DOMAIN repo'.scores :
                        repo'.scores[i].game_id # engine.game_id
                  /\ ~engine'.score_recorded
                  /\ engine'.is_complete
                  /\ engine'.pos = TheMaze.exit)]_vars

\* record_score has just failed on the completing move: the session is
\* completed, there is no score, the guard is unset.
C40_Witness ==
    /\ out.op = "raise"
    /\ out.error = "record_score"
    /\ engine.pos = TheMaze.exit
    /\ get_game(repo, engine.game_id).status = "completed"
    /\ repo.scores = <<>>
    /\ ~engine.score_recorded

====
